---- MODULE Spec2Model ----
(***************************************************************************)
(* Data acquisition layer of ClimateIntelligence: the cached fetch         *)
(* functions of utils.py and the API clients of api_integrations.py.       *)
(*                                                                         *)
(* A fetch call is modelled at the granularity of its blocking HTTP        *)
(* requests: Call runs the code up to the first request (or returns the    *)
(* cached value), Respond delivers the outcome of the pending request and  *)
(* runs the code up to the next request or to the return.  Tick advances   *)
(* the clock that st.cache_data compares against its ttl.                  *)
(*                                                                         *)
(* Numbers: a coordinate is an integer count of hundredths of a degree;    *)
(* a float value is a fraction [num, den] (den = 0 is NaN).                *)
(*                                                                         *)
(* utils.py as committed does not compile: in get_climate_events_data the  *)
(* try block is closed without an except clause (line 463).  Each function *)
(* modelled here is translated from its own body, which is well formed.    *)
(***************************************************************************)
EXTENDS Integers, Sequences, FiniteSets, TLC

VARIABLES
    fn,       \* the fetch function this session exercises
    pc,       \* "idle" | "wait" (blocked in an HTTP request)
    arg,      \* argument of the current / last call
    stage,    \* provider whose response is awaited ("none" when idle)
    reqLog,   \* providers requested by the current / last call, in order
    reqArgs,  \* the parameters sent with each of those requests
    outLog,   \* their outcomes, in order
    result,   \* what the last call gave its caller
    cache,    \* st.cache_data entries: key -> [has, val, storedAt]
    now,      \* clock, seconds
    nTicks,   \* number of clock advances so far
    derived,  \* the series a consumer built from the last fetched payload
    page,     \* the page script being run: position and rendered sections
    sess,     \* the sessions sharing the cache, each with the object it holds
    app       \* the browser session of the app: st.session_state, the page shown,
              \* and the active .streamlit/config.toml

vars == <<fn, pc, arg, stage, reqLog, reqArgs, outLog, result, cache, now, nTicks,
          derived, page, sess, app>>

(***************************************************************************)
(* Bounds of the model.                                                    *)
(***************************************************************************)
MaxTicks == 3

MaxRecs == 2

(***************************************************************************)
(* Text tokens of a payload and Python's coercions of them.                *)
(*   "int"  an integer literal n            "dec"  the decimal n + 1/2     *)
(*   "nan"  the literal nan                 "bad"  non-numeric text        *)
(*   "null" JSON null / empty / missing column                             *)
(***************************************************************************)
Tok(k, n) == [k |-> k, n |-> n]

Frac(a, b) == [num |-> a, den |-> b]

NaN == Frac(0, 0)

\* float(t) succeeds
FloatOk(t) == t.k \in {"int", "dec", "nan"}

\* float(t)
Float(t) ==
    IF t.k = "int" THEN Frac(t.n, 1)
    ELSE IF t.k = "dec" THEN Frac(2 * t.n + 1, 2)
    ELSE NaN

\* int(t) on text succeeds
IntOk(t) == t.k = "int"

\* int(float(t)) succeeds
IntFloatOk(t) == t.k \in {"int", "dec"}

\* a payload record: period token, value token, country
Row(p, v, c) == [p |-> p, v |-> v, c |-> c]

\* a point of a returned table
Point(y, x) == [Year |-> y, val |-> x]

\* a < b on fractions with positive denominators
FracLess(a, b) == a.num * b.den < b.num * a.den

\* the order of sorted(zip(years, values)): by year, then by value
PointLess(a, b) ==
    \/ a.Year < b.Year
    \/ a.Year = b.Year /\ FracLess(a.val, b.val)

RECURSIVE InsertSorted(_, _)
InsertSorted(s, x) ==
    IF s = <<>> THEN <<x>>
    ELSE IF PointLess(x, Head(s)) THEN <<x>> \o s
    ELSE <<Head(s)>> \o InsertSorted(Tail(s), x)

RECURSIVE SortPoints(_)
SortPoints(s) ==
    IF s = <<>> THEN <<>>
    ELSE InsertSorted(SortPoints(Tail(s)), Head(s))

(***************************************************************************)
(* Parsers of the time-series providers.                                   *)
(***************************************************************************)
\* NOAA GML annual-mean CO2 text: int(parts[0]), float(parts[1]); a line
\* that has fewer than two parts or does not parse is skipped
RECURSIVE ParseNoaaCo2(_)
ParseNoaaCo2(rows) ==
    IF rows = <<>> THEN <<>>
    ELSE LET r == Head(rows)
             rest == ParseNoaaCo2(Tail(rows))
         IN  IF r.p.k # "null" /\ r.v.k # "null" /\ IntOk(r.p) /\ FloatOk(r.v)
             THEN <<Point(r.p.n, Float(r.v))>> \o rest
             ELSE rest

\* Scripps monthly CSV: the rows of a year that carry a value, in payload order
RECURSIVE YearValues(_, _)
YearValues(rows, y) ==
    IF rows = <<>> THEN <<>>
    ELSE LET r == Head(rows)
             rest == YearValues(Tail(rows), y)
         IN  IF IntFloatOk(r.p) /\ r.p.n = y /\ r.v.k # "null" /\ FloatOk(r.v)
             THEN <<Float(r.v)>> \o rest
             ELSE rest

\* the years of year_averages in insertion order
RECURSIVE ScrippsYears(_, _)
ScrippsYears(rows, seen) ==
    IF rows = <<>> THEN <<>>
    ELSE LET r == Head(rows)
         IN  IF IntFloatOk(r.p) /\ r.v.k # "null" /\ FloatOk(r.v)
                /\ r.p.n \notin seen
             THEN <<r.p.n>> \o ScrippsYears(Tail(rows), seen \cup {r.p.n})
             ELSE ScrippsYears(Tail(rows), seen)

RECURSIVE SumFracs(_)
SumFracs(fs) ==
    IF fs = <<>> THEN Frac(0, 1)
    ELSE LET a == Head(fs)
             b == SumFracs(Tail(fs))
         IN  IF a.den = 0 \/ b.den = 0 THEN NaN
             ELSE Frac(a.num * b.den + b.num * a.den, a.den * b.den)

\* sum(values) / len(values)
Mean(fs) ==
    LET s == SumFracs(fs)
    IN  IF s.den = 0 THEN NaN ELSE Frac(s.num, s.den * Len(fs))

\* df.sort_values('Year') of a table whose years are distinct
RECURSIVE InsertByYear(_, _)
InsertByYear(s, x) ==
    IF s = <<>> THEN <<x>>
    ELSE IF x.Year < Head(s).Year THEN <<x>> \o s
    ELSE <<Head(s)>> \o InsertByYear(Tail(s), x)

RECURSIVE SortByYear(_)
SortByYear(s) ==
    IF s = <<>> THEN <<>>
    ELSE InsertByYear(SortByYear(Tail(s)), Head(s))

ParseScripps(rows) ==
    LET ys == ScrippsYears(rows, {})
    IN  SortByYear([i \in 1..Len(ys) |-> Point(ys[i], Mean(YearValues(rows, ys[i])))])

\* CSIRO and NASA sea level text: float(parts[0]), float(parts[1]),
\* int(year); a line that does not parse is skipped
RECURSIVE ParseSeaLevel(_)
ParseSeaLevel(rows) ==
    IF rows = <<>> THEN <<>>
    ELSE LET r == Head(rows)
             rest == ParseSeaLevel(Tail(rows))
         IN  IF r.p.k # "null" /\ r.v.k # "null" /\ IntFloatOk(r.p) /\ FloatOk(r.v)
             THEN <<Point(r.p.n, Float(r.v))>> \o rest
             ELSE rest

\* the CSIRO file's first line is a header and is skipped
ParseCsiro(rows) == IF rows = <<>> THEN <<>> ELSE ParseSeaLevel(Tail(rows))

\* a parser's result: ok = FALSE when it raised
Parsed(pts) == [ok |-> TRUE, pts |-> pts]

ParseRaised == [ok |-> FALSE, pts |-> <<>>]

\* NASA GISTEMP CSV through pandas.  pd.to_numeric(errors='coerce') turns a
\* value that is not a number into NaN, the anomaly is divided by 100,
\* dropna() drops the rows with a missing year or anomaly, and
\* astype(int) converts the years: it truncates a float column and raises
\* on a text column (one that holds non-numeric text) unless every kept
\* year is an integer literal.
NasaKeeps(r) == r.p.k \notin {"null", "nan"} /\ r.v.k \in {"int", "dec"}

RECURSIVE NasaPoints(_)
NasaPoints(rows) ==
    IF rows = <<>> THEN <<>>
    ELSE LET r == Head(rows)
             rest == NasaPoints(Tail(rows))
         IN  IF NasaKeeps(r)
             THEN <<Point(r.p.n, Frac(Float(r.v).num, Float(r.v).den * 100))>> \o rest
             ELSE rest

ParseNasaGiss(rows) ==
    LET textCol == \E i \in 1..Len(rows) : rows[i].p.k = "bad"
        raises == \E i \in 1..Len(rows) :
                     /\ NasaKeeps(rows[i])
                     /\ \/ rows[i].p.k = "bad"
                        \/ textCol /\ rows[i].p.k = "dec"
    IN  IF raises THEN ParseRaised ELSE Parsed(NasaPoints(rows))

\* Berkeley Earth text: a line with fewer than two parts is skipped;
\* int(float(parts[0])) and float(parts[1]) are not guarded, so one line
\* that does not parse raises out of the loop
BerkeleyReads(r) == r.p.k # "null" /\ r.v.k # "null"

RECURSIVE BerkeleyPoints(_)
BerkeleyPoints(rows) ==
    IF rows = <<>> THEN <<>>
    ELSE LET r == Head(rows)
             rest == BerkeleyPoints(Tail(rows))
         IN  IF BerkeleyReads(r)
             THEN <<Point(r.p.n, Float(r.v))>> \o rest
             ELSE rest

ParseBerkeley(rows) ==
    IF \E i \in 1..Len(rows) :
          BerkeleyReads(rows[i]) /\ ~(IntFloatOk(rows[i].p) /\ FloatOk(rows[i].v))
    THEN ParseRaised
    ELSE Parsed(BerkeleyPoints(rows))

\* World Bank records: value not None and date truthy, int(date),
\* float(value); a record that does not parse is skipped; sorted by year
RECURSIVE WorldBankPoints(_)
WorldBankPoints(rows) ==
    IF rows = <<>> THEN <<>>
    ELSE LET r == Head(rows)
             rest == WorldBankPoints(Tail(rows))
         IN  IF r.v.k # "null" /\ r.p.k # "null" /\ IntOk(r.p) /\ FloatOk(r.v)
             THEN <<Point(r.p.n, Float(r.v))>> \o rest
             ELSE rest

ParseWorldBank(rows) == SortPoints(WorldBankPoints(rows))

\* str.lower() on the place and country names of the model
Lower(s) ==
    CASE s = "Global" -> "global"
      [] s = "USA" -> "usa"
      [] s = "US" -> "us"
      [] s = "India" -> "india"
      [] s = "China" -> "china"
      [] s = "Paris" -> "paris"
      [] s = "IND" -> "ind"
      [] s = "CHN" -> "chn"
      [] s = "FRA" -> "fra"
      [] s = "GLOBAL" -> "global"
      [] OTHER -> s

\* needle in hay, on lower-case names of the model
Contains(hay, needle) ==
    \/ needle = hay
    \/ <<needle, hay>> \in {<<"us", "usa">>, <<"ind", "india">>,
                            <<"in", "india">>, <<"in", "china">>}

\* location_mapping.get(location.lower(), "GLOBAL")
CountryCode(location) ==
    LET l == Lower(location)
    IN  CASE l \in {"global", "world", "earth"} -> "GLOBAL"
          [] l \in {"us", "usa", "united states"} -> "USA"
          [] l \in {"europe", "eu"} -> "EUU"
          [] l = "uk" -> "GBR"
          [] l = "china" -> "CHN"
          [] l = "india" -> "IND"
          [] OTHER -> "GLOBAL"

\* country_code == "GLOBAL" or country.lower() == country_code.lower()
\* or country.lower() in location_lower
CountryMatches(country, location) ==
    \/ CountryCode(location) = "GLOBAL"
    \/ Lower(country) = Lower(CountryCode(location))
    \/ Contains(Lower(location), Lower(country))

\* WHO facts: the records of the country that carry a year and a value
WhoSelects(r, location) ==
    r.c # "" /\ r.v.k # "null" /\ r.p.k # "null" /\ CountryMatches(r.c, location)

RECURSIVE WhoPoints(_, _)
WhoPoints(rows, location) ==
    IF rows = <<>> THEN <<>>
    ELSE LET r == Head(rows)
             rest == WhoPoints(Tail(rows), location)
         IN  IF WhoSelects(r, location)
             THEN <<Point(r.p.n, Float(r.v))>> \o rest
             ELSE rest

\* int(year) and float(value) are not guarded inside the loop
ParseWho(rows, location) ==
    IF \E i \in 1..Len(rows) :
          WhoSelects(rows[i], location) /\ ~(IntOk(rows[i].p) /\ FloatOk(rows[i].v))
    THEN ParseRaised
    ELSE Parsed(SortPoints(WhoPoints(rows, location)))

\* the built-in PM2.5 series, in tenths, for the years 2000..2021
StaticPm25(code) ==
    CASE code = "USA" ->
           <<138, 135, 131, 128, 124, 121, 117, 114, 109, 105,
             101, 98, 96, 93, 90, 88, 83, 80, 77, 75, 72, 70>>
      [] code = "EUU" ->
           <<155, 153, 150, 148, 145, 143, 140, 138, 135, 133,
             130, 128, 125, 122, 119, 115, 112, 109, 105, 102, 98, 95>>
      [] code = "CHN" ->
           <<425, 438, 450, 462, 475, 487, 499, 511, 523, 534,
             545, 555, 565, 570, 572, 570, 560, 540, 500, 450, 410, 375>>
      [] code = "IND" ->
           <<638, 645, 652, 659, 666, 673, 679, 686, 692, 698,
             704, 709, 715, 720, 725, 730, 735, 740, 743, 745, 740, 735>>
      [] OTHER ->
           <<236, 238, 240, 242, 243, 245, 246, 248, 249, 250,
             251, 251, 250, 249, 247, 245, 242, 239, 235, 231, 228, 225>>

StaticSeries(location) ==
    LET vs == StaticPm25(CountryCode(location))
    IN  [i \in 1..Len(vs) |-> Point(1999 + i, Frac(vs[i], 10))]

(***************************************************************************)
(* Values handed to the caller.                                            *)
(*   type: "table" (DataFrame) | "list" | "dict" | "feature" | "none"      *)
(*   rows: the records or points it holds                                  *)
(*   name: the place it is about or the message it carries, if any         *)
(*   keys: the keys of a feature's properties / of an error dict           *)
(***************************************************************************)
Value(t, rows, name, keys) == [type |-> t, rows |-> rows, name |-> name, keys |-> keys]

Table(pts) == Value("table", pts, "", {})

\* pd.DataFrame(columns=[...])
EmptyTable == Table(<<>>)

ListOf(rows) == Value("list", rows, "", {})

Dict(rows) == Value("dict", rows, "", {})

NoneValue == Value("none", <<>>, "", {})

\* the backup structure of fetch_weather: temp 20, country XX
BackupWeather(location) ==
    Value("dict", <<Row(Tok("null", 0), Tok("int", 20), "XX")>>, location, {})

ForecastSlots == 40

ForecastStepSeconds == 10800

\* the backup structure of fetch_forecast: 40 three-hourly slots from now
BackupForecast(location, t) ==
    Value("dict",
          [i \in 1..ForecastSlots |->
              Row(Tok("int", t + (i - 1) * ForecastStepSeconds), Tok("int", 20), "XX")],
          location, {})

\* the Feature returned by get_climate_data on a request error, with
\* properties.error = str(e)
ErrorFeature(msg) == Value("feature", <<>>, msg, {"error", "elevation"})

\* ... when the station lookup finds no station
NoStationFeature ==
    Value("feature", <<>>, "No nearby weather stations found", {"error", "elevation"})

\* ... with the station and its data
StationFeature(stationRows, dataRows) ==
    Value("feature", stationRows \o dataRows, "", {"station", "data", "elevation"})

\* {"status": "error", "message": str(e)}
ErrorDict(msg) == Value("dict", <<>>, msg, {"status", "message"})

(***************************************************************************)
(* Outcomes of an HTTP request.                                            *)
(*   t = "exc": requests raised (connection error, timeout)                *)
(*   t = "resp": a response with a status and a body; fmt says how far     *)
(*   the body is what the code expects:                                    *)
(*     "garbled"   not valid JSON / CSV / zip                              *)
(*     "nonobject" valid JSON whose top level is not an object             *)
(*     "nokeys"    valid, but the expected keys, columns or archive        *)
(*                 members are missing                                     *)
(*     "badrow"    keys present, a record is not of the expected shape     *)
(*                 (station without "id", entry that is not an object)     *)
(*     "nocoords"  station with "id" but without longitude / latitude      *)
(*     "notfound"  the provider's own not-found object (cod 404)           *)
(*     "ok"        the expected shape, with records recs                   *)
(***************************************************************************)
Exc == [t |-> "exc", status |-> 0, fmt |-> "none", recs |-> <<>>]

Resp(status, fmt, recs) == [t |-> "resp", status |-> status, fmt |-> fmt, recs |-> recs]

HttpOk == 200

\* response.status_code == 200
Is200(o) == o.t = "resp" /\ o.status = HttpOk

\* requests.get returned and raise_for_status() did not raise
PassedRaiseForStatus(o) == o.t = "resp" /\ o.status < 400

\* ... and the body could be read in its transport format: response.json()
\* / pd.read_csv did not raise (requests' JSONDecodeError is a RequestException)
BodyRead(o) == PassedRaiseForStatus(o) /\ o.fmt # "garbled"

\* str(e) of the RequestException a failed request raises
ExcText(o) ==
    IF o.t = "exc" THEN "ConnectionError: connection refused"
    ELSE IF o.status >= 400 THEN "HTTPError: 503 Server Error"
    ELSE "JSONDecodeError: Expecting value"

(***************************************************************************)
(* The fetch functions, provider by provider.  A step is what the code     *)
(* does with the outcome of the pending request: issue the next request,   *)
(* return a value, or let an exception escape.                             *)
(***************************************************************************)
Req(p) == [act |-> "request", stage |-> p, val |-> NoneValue]

Ret(v) == [act |-> "return", stage |-> "none", val |-> v]

Raise == [act |-> "raise", stage |-> "none", val |-> NoneValue]

\* fetch_climate_news: except requests.RequestException only
StepNews(o) ==
    IF ~BodyRead(o) THEN Ret(ListOf(<<>>))
    ELSE IF o.fmt = "nonobject" THEN Raise
    ELSE IF o.fmt = "ok" THEN Ret(ListOf(o.recs))
    ELSE Ret(ListOf(<<>>))

\* fetch_weather
StepWeather(location, o) ==
    IF ~BodyRead(o) THEN Ret(BackupWeather(location))
    ELSE IF o.fmt = "nonobject" THEN Raise
    ELSE IF o.fmt = "notfound" THEN Ret(NoneValue)
    ELSE Ret(Dict(o.recs))

\* fetch_forecast
StepForecast(location, o, t) ==
    IF ~BodyRead(o) THEN Ret(BackupForecast(location, t))
    ELSE IF o.fmt = "nonobject" THEN Raise
    ELSE IF o.fmt = "notfound" THEN Ret(NoneValue)
    ELSE Ret(Dict(o.recs))

\* get_global_temperature_data: pd.read_csv raises on a connection error,
\* an HTTP error status and an unreadable file; the Berkeley source is
\* requested only when the NASA columns are missing
StepTemperature(st, o) ==
    IF st = "nasa_giss" THEN
        IF ~BodyRead(o) THEN Ret(EmptyTable)
        ELSE IF o.fmt = "nokeys" THEN Req("berkeley")
        ELSE LET r == ParseNasaGiss(o.recs)
             IN  IF r.ok THEN Ret(Table(r.pts)) ELSE Ret(EmptyTable)
    ELSE
        IF ~Is200(o) THEN Ret(EmptyTable)
        ELSE IF o.fmt = "nokeys" THEN Ret(Table(<<>>))
        ELSE LET r == ParseBerkeley(o.recs)
             IN  IF r.ok THEN Ret(Table(r.pts)) ELSE Ret(EmptyTable)

\* get_co2_data
StepCo2(st, o) ==
    IF st = "noaa_gml" THEN
        IF o.t = "exc" THEN Ret(EmptyTable)
        ELSE IF Is200(o) THEN Ret(Table(ParseNoaaCo2(o.recs)))
        ELSE Req("scripps")
    ELSE
        IF Is200(o) THEN Ret(Table(ParseScripps(o.recs)))
        ELSE Ret(EmptyTable)

\* StepSeaLevel asking CSIRO again after a status other than 200
StepSeaLevelRetries(st, o) ==
    IF st = "csiro" THEN
        IF o.t = "exc" THEN Ret(EmptyTable)
        ELSE IF ~Is200(o) THEN Req("csiro")
        ELSE IF o.fmt \in {"garbled", "nokeys"} THEN Ret(EmptyTable)
        ELSE Ret(Table(ParseCsiro(o.recs)))
    ELSE Ret(EmptyTable)

\* get_sea_level_data
StepSeaLevel(st, o) ==
    IF st = "csiro" THEN
        IF o.t = "exc" THEN Ret(EmptyTable)
        ELSE IF ~Is200(o) THEN Req("nasa_sea")
        ELSE IF o.fmt = "garbled" THEN Ret(EmptyTable)
        ELSE IF o.fmt = "nokeys" THEN Ret(EmptyTable)
        ELSE Ret(Table(ParseCsiro(o.recs)))
    ELSE
        IF Is200(o) THEN Ret(Table(ParseSeaLevel(o.recs)))
        ELSE Ret(EmptyTable)

\* get_air_quality_data
StepAirQuality(location, st, o) ==
    IF st = "worldbank" THEN
        IF o.t = "exc" THEN Ret(EmptyTable)
        ELSE IF ~Is200(o) THEN Req("oecd")
        ELSE IF o.fmt \in {"garbled", "nokeys"} THEN Req("oecd")
        ELSE IF o.fmt = "badrow" THEN Ret(EmptyTable)
        ELSE LET pts == ParseWorldBank(o.recs)
             IN  IF pts # <<>> THEN Ret(Table(pts)) ELSE Req("oecd")
    ELSE IF st = "oecd" THEN
        IF o.t = "exc" THEN Ret(EmptyTable)
        ELSE IF ~Is200(o) THEN Ret(Table(StaticSeries(location)))
        ELSE IF o.fmt = "garbled" THEN Ret(Table(StaticSeries(location)))
        ELSE Req("who")
    ELSE
        IF ~Is200(o) \/ o.fmt # "ok" THEN Ret(Table(StaticSeries(location)))
        ELSE LET r == ParseWho(o.recs, location)
             IN  IF r.ok /\ r.pts # <<>> THEN Ret(Table(r.pts))
                 ELSE Ret(Table(StaticSeries(location)))

\* is_us_location with the northern edge of the first box excluded
is_us_location_open_edge(lat, lon) ==
    \/ 2500 <= lat /\ lat < 4950 /\ -12450 <= lon /\ lon <= -6695
    \/ lat >= 4950 /\ -12450 <= lon /\ lon <= -6740
    \/ 5450 <= lat /\ lat <= 7150 /\ -16800 <= lon /\ lon <= -14000

\* NOAAAPI.is_us_location, on hundredths of a degree
is_us_location(lat, lon) ==
    \/ 2500 <= lat /\ lat <= 4950 /\ -12450 <= lon /\ lon <= -6695
    \/ lat >= 4950 /\ -12450 <= lon /\ lon <= -6740
    \/ 5450 <= lat /\ lat <= 7150 /\ -16800 <= lon /\ lon <= -14000

\* get_climate_data falling back to the CDO-web station lookup when the
\* api.weather.gov request fails
StepClimateDataFallsBack(st, o, prev) ==
    IF st = "weather_gov" THEN
        IF ~BodyRead(o) THEN Req("cdo_stations") ELSE Ret(Dict(o.recs))
    ELSE IF st = "cdo_stations" THEN
        IF ~BodyRead(o) THEN Ret(ErrorFeature(ExcText(o)))
        ELSE IF o.fmt = "nonobject" THEN Raise
        ELSE IF o.fmt = "nokeys" \/ (o.fmt = "ok" /\ o.recs = <<>>)
             THEN Ret(NoStationFeature)
        ELSE IF o.fmt = "badrow" THEN Raise
        ELSE Req("cdo_data")
    ELSE
        IF ~PassedRaiseForStatus(o) THEN Ret(ErrorFeature(ExcText(o)))
        ELSE IF prev[Len(prev)].out.fmt = "nocoords" THEN Raise
        ELSE IF o.fmt = "garbled" THEN Ret(ErrorFeature(ExcText(o)))
        ELSE Ret(StationFeature(prev[Len(prev)].out.recs, o.recs))

\* NOAAAPI.get_climate_data: except requests.exceptions.RequestException
\* only; prev holds the outcomes of the call's earlier requests
StepClimateData(st, o, prev) ==
    IF st = "weather_gov" THEN
        IF ~BodyRead(o) THEN Ret(ErrorFeature(ExcText(o))) ELSE Ret(Dict(o.recs))
    ELSE IF st = "cdo_stations" THEN
        IF ~BodyRead(o) THEN Ret(ErrorFeature(ExcText(o)))
        ELSE IF o.fmt = "nonobject" THEN Raise
        ELSE IF o.fmt = "nokeys" \/ (o.fmt = "ok" /\ o.recs = <<>>)
             THEN Ret(NoStationFeature)
        ELSE IF o.fmt = "badrow" THEN Raise
        ELSE Req("cdo_data")
    ELSE
        IF ~PassedRaiseForStatus(o) THEN Ret(ErrorFeature(ExcText(o)))
        ELSE IF prev[1].out.fmt = "nocoords" THEN Raise
        ELSE IF o.fmt = "garbled" THEN Ret(ErrorFeature(ExcText(o)))
        ELSE Ret(StationFeature(prev[1].out.recs, o.recs))

\* WorldBankAPI.get_indicator_data
StepIndicatorData(o) ==
    IF ~BodyRead(o) THEN Ret(ErrorDict(ExcText(o))) ELSE Ret(Dict(o.recs))

(***************************************************************************)
(* The functions, their arguments and their providers.                     *)
(***************************************************************************)
\* the cached functions that request no provider
LocalFns == {"get_climate_indicators", "get_climate_events_data"}

CachedFns ==
    {"fetch_climate_news", "fetch_weather", "fetch_forecast",
     "get_global_temperature_data", "get_co2_data", "get_sea_level_data",
     "get_air_quality_data"} \cup LocalFns

\* the functions that request a provider
Fns == (CachedFns \ LocalFns) \cup {"get_climate_data", "get_indicator_data"}

\* the functions that have a fallback cascade of time-series providers
CascadeFns ==
    {"get_global_temperature_data", "get_co2_data", "get_sea_level_data",
     "get_air_quality_data"}

NewsTtl == 3600

WeatherTtl == 1800

SeriesTtl == 86400

\* Ttl giving the weather and the forecast the window of the news
TtlOfNewsForWeather(f) ==
    CASE f \in {"fetch_climate_news", "fetch_weather", "fetch_forecast"} -> NewsTtl
      [] OTHER -> SeriesTtl

\* the ttl of the function's @st.cache_data decorator
Ttl(f) ==
    CASE f = "fetch_climate_news" -> NewsTtl
      [] f \in {"fetch_weather", "fetch_forecast"} -> WeatherTtl
      [] OTHER -> SeriesTtl

LatSamples == {-9000, 0, 2499, 2500, 4949, 4950, 4951, 5449, 5450, 7150, 7151, 9000}

LonSamples ==
    {-18000, -16801, -16800, -14000, -13999, -12451, -12450, -6741, -6740,
     -6739, -6696, -6695, -6694, 0, 18000}

GeoPoints == [lat : LatSamples, lon : LonSamples]

\* the argument values a session passes
Args(f) ==
    CASE f = "fetch_climate_news" -> {1, 2}
      [] f \in {"fetch_weather", "fetch_forecast"} -> {"Paris", "India"}
      [] f = "get_air_quality_data" -> {"Global", "India"}
      [] f = "get_climate_data" -> GeoPoints
      [] f = "get_indicator_data" -> {"all"}
      [] OTHER -> {"()"}

\* the providers a function may request, in the order of its code
Providers(f) ==
    CASE f = "fetch_climate_news" -> <<"newsdata">>
      [] f = "fetch_weather" -> <<"owm_weather">>
      [] f = "fetch_forecast" -> <<"owm_forecast">>
      [] f = "get_global_temperature_data" -> <<"nasa_giss", "berkeley">>
      [] f = "get_co2_data" -> <<"noaa_gml", "scripps">>
      [] f = "get_sea_level_data" -> <<"csiro", "nasa_sea">>
      [] f = "get_air_quality_data" -> <<"worldbank", "oecd", "who">>
      [] f = "get_climate_data" -> <<"weather_gov", "cdo_stations", "cdo_data">>
      [] f \in LocalFns -> <<>>
      [] OTHER -> <<"wb_indicator">>

\* First starting the cascade at its last provider
FirstFromLast(f, a) ==
    IF f = "get_climate_data"
    THEN IF is_us_location(a.lat, a.lon) THEN "weather_gov" ELSE "cdo_stations"
    ELSE Providers(f)[Len(Providers(f))]

\* the first request of a call
First(f, a) ==
    IF f = "get_climate_data"
    THEN IF is_us_location(a.lat, a.lon) THEN "weather_gov" ELSE "cdo_stations"
    ELSE Providers(f)[1]

\* the code between the response to the pending request and the next
\* request or the return
Step(f, a, st, o, prev, t) ==
    CASE f = "fetch_climate_news" -> StepNews(o)
      [] f = "fetch_weather" -> StepWeather(a, o)
      [] f = "fetch_forecast" -> StepForecast(a, o, t)
      [] f = "get_global_temperature_data" -> StepTemperature(st, o)
      [] f = "get_co2_data" -> StepCo2(st, o)
      [] f = "get_sea_level_data" -> StepSeaLevel(st, o)
      [] f = "get_air_quality_data" -> StepAirQuality(a, st, o)
      [] f = "get_climate_data" -> StepClimateData(st, o, prev)
      [] OTHER -> StepIndicatorData(o)

\* results[0] of the station lookup; a station record without coordinates
\* still carries its id
FirstStation(o) == IF o.fmt = "nocoords" THEN Row(Tok("null", 0), Tok("int", 0), "") ELSE o.recs[1]

\* station["id"]: the record's own number
StationId(r) == r.v

NoArgs == [extent |-> <<>>, stationid |-> Tok("null", 0)]

\* RequestArgs taking the id of the last station of the lookup
RequestArgsLastStation(f, a, p, prev) ==
    CASE p = "cdo_stations" ->
           [NoArgs EXCEPT !.extent = <<a.lat - 100, a.lon - 100, a.lat + 100, a.lon + 100>>]
      [] p = "cdo_data" ->
           LET o == prev[Len(prev)].out
           IN  [NoArgs EXCEPT !.stationid =
                   IF o.fmt = "nocoords" THEN StationId(FirstStation(o))
                   ELSE StationId(o.recs[Len(o.recs)])]
      [] OTHER -> NoArgs

\* the parameters of the request to provider p that depend on the argument
\* or on an earlier response: the extent of one degree around the point
\* (in hundredths of a degree) and the id of the station found
RequestArgs(f, a, p, prev) ==
    CASE p = "cdo_stations" ->
           [NoArgs EXCEPT !.extent = <<a.lat - 100, a.lon - 100, a.lat + 100, a.lon + 100>>]
      [] p = "cdo_data" ->
           [NoArgs EXCEPT !.stationid = StationId(FirstStation(prev[Len(prev)].out))]
      [] OTHER -> NoArgs

(***************************************************************************)
(* What the providers may answer.  Each provider's records carry values    *)
(* of its own, so that a returned table shows whose data it holds.         *)
(***************************************************************************)
ProviderNo(p) ==
    CASE p \in {"newsdata", "owm_weather", "owm_forecast", "nasa_giss", "noaa_gml",
                "csiro", "worldbank", "weather_gov", "wb_indicator"} -> 1
      [] p \in {"berkeley", "scripps", "nasa_sea", "oecd", "cdo_stations"} -> 2
      [] OTHER -> 3

GoodRow(p) == Row(Tok("int", 2001), Tok("int", 100 * ProviderNo(p) + 1), "IND")

HeaderRow == Row(Tok("bad", 0), Tok("bad", 0), "")

UnusableRow == Row(Tok("int", 2002), Tok("bad", 0), "IND")

\* the record lists of a readable payload: none, none usable, one usable
\* after a text line, one usable alone
SampleRecs(p) ==
    {<<>>, <<HeaderRow, UnusableRow>>, <<HeaderRow, GoodRow(p)>>, <<GoodRow(p)>>}

\* the body shapes a provider's code distinguishes, besides "ok"
Shapes(p) ==
    CASE p \in {"newsdata"} -> {"garbled", "nonobject", "nokeys"}
      [] p \in {"owm_weather", "owm_forecast"} -> {"garbled", "nonobject", "notfound"}
      [] p \in {"nasa_giss", "csiro"} -> {"garbled", "nokeys"}
      [] p \in {"berkeley"} -> {"nokeys"}
      [] p \in {"worldbank", "who"} -> {"garbled", "nokeys", "badrow"}
      [] p \in {"cdo_stations"} -> {"garbled", "nonobject", "nokeys", "badrow", "nocoords"}
      [] p \in {"oecd", "weather_gov", "cdo_data", "wb_indicator"} -> {"garbled"}
      [] OTHER -> {}

Outcomes(p) ==
    {Exc, Resp(503, "garbled", <<>>)}
      \cup {Resp(HttpOk, sh, <<>>) : sh \in Shapes(p)}
      \cup {Resp(HttpOk, "ok", rs) : rs \in SampleRecs(p)}

(***************************************************************************)
(* st.cache_data: one entry per function and argument tuple, served        *)
(* while it is younger than the decorator's ttl; only a returned value is  *)
(* stored, an exception stores nothing.                                    *)
(***************************************************************************)
\* by: the call that wrote the entry (a record of the model, not of the cache)
NoEntry == [has |-> FALSE, val |-> NoneValue, storedAt |-> 0, by |-> <<>>]

\* Key leaving the argument values out
KeyByFunctionOnly(f, a) == <<f, "*">>

\* the key of an entry: the function and the tuple of its argument values
Key(f, a) == <<f, a>>

Keys(f) == IF f \in CachedFns THEN {Key(f, a) : a \in Args(f)} ELSE {}

\* CacheValid serving an entry whose age equals the ttl
CacheValidInclusive(c, f, a, t) ==
    /\ f \in CachedFns
    /\ c[Key(f, a)].has
    /\ t - c[Key(f, a)].storedAt <= Ttl(f)

\* the entry of the key is there and has not expired
CacheValid(c, f, a, t) ==
    /\ f \in CachedFns
    /\ c[Key(f, a)].has
    /\ t - c[Key(f, a)].storedAt < Ttl(f)

\* the cache after the function returned v at time t
CacheStore(c, f, a, v, t) ==
    IF f \in CachedFns
    THEN [c EXCEPT ![Key(f, a)] =
                [has |-> TRUE, val |-> v, storedAt |-> t, by |-> <<f, a>>]]
    ELSE c

NoResult == [kind |-> "none", val |-> NoneValue, hit |-> FALSE]

Returned(v, hit) == [kind |-> "value", val |-> v, hit |-> hit]

Raised == [kind |-> "raised", val |-> NoneValue, hit |-> FALSE]

\* no consumer has built a series
NoSeries == [by |-> "none", ok |-> TRUE, pts |-> <<>>]

\* no page script is running
NoPage == [name |-> "none"]

\* no session is attached
NoSessions == <<>>

\* no browser session has opened the app
NoApp == [cur |-> "none"]

(***************************************************************************)
(* The state machine.                                                      *)
(***************************************************************************)
Init ==
    /\ fn \in Fns
    /\ pc = "idle"
    /\ arg = CHOOSE a \in Args(fn) : TRUE
    /\ stage = "none"
    /\ app = NoApp
    /\ reqLog = <<>>
    /\ reqArgs = <<>>
    /\ outLog = <<>>
    /\ result = NoResult
    /\ cache = [k \in Keys(fn) |-> NoEntry]
    /\ now = 0
    /\ nTicks = 0
    /\ derived = NoSeries
    /\ page = NoPage
    /\ sess = NoSessions

\* the caller calls fn(a): a cache hit returns at once, a miss runs the
\* function up to its first request
Call(a) ==
    /\ pc = "idle"
    /\ arg' = a
    /\ outLog' = <<>>
    /\ IF CacheValid(cache, fn, a, now)
       THEN /\ result' = Returned(cache[Key(fn, a)].val, TRUE)
            /\ reqLog' = <<>>
            /\ reqArgs' = <<>>
            /\ UNCHANGED <<pc, stage>>
       ELSE /\ result' = NoResult
            /\ pc' = "wait"
            /\ stage' = First(fn, a)
            /\ reqLog' = <<First(fn, a)>>
            /\ reqArgs' = <<RequestArgs(fn, a, First(fn, a), <<>>)>>
    /\ UNCHANGED <<app, fn, cache, now, nTicks, derived, page, sess>>

\* the pending request ends with outcome o
Respond(o) ==
    /\ pc = "wait"
    /\ LET s == Step(fn, arg, stage, o, outLog, now)
       IN  /\ outLog' = Append(outLog, [prov |-> stage, out |-> o])
           /\ IF s.act = "request"
              THEN /\ stage' = s.stage
                   /\ reqLog' = Append(reqLog, s.stage)
                   /\ reqArgs' = Append(reqArgs, RequestArgs(fn, arg, s.stage, outLog'))
                   /\ UNCHANGED <<pc, result, cache>>
              ELSE /\ pc' = "idle"
                   /\ stage' = "none"
                   /\ reqLog' = reqLog
                   /\ reqArgs' = reqArgs
                   /\ IF s.act = "return"
                      THEN /\ result' = Returned(s.val, FALSE)
                           /\ cache' = CacheStore(cache, fn, arg, s.val, now)
                      ELSE /\ result' = Raised
                           /\ cache' = cache
    /\ UNCHANGED <<app, fn, arg, now, nTicks, derived, page, sess>>

\* the clock advances in steps of half an hour-class window: 30 minutes
\* for news, 15 minutes for weather and forecast, 12 hours for the series
TickSteps(f) ==
    CASE f = "fetch_climate_news" -> {1800}
      [] f \in {"fetch_weather", "fetch_forecast"} -> {900}
      [] OTHER -> {43200}

Tick(d) ==
    /\ pc = "idle"
    /\ fn \in CachedFns
    /\ nTicks < MaxTicks
    /\ now' = now + d
    /\ nTicks' = nTicks + 1
    /\ UNCHANGED <<app, fn, pc, arg, stage, reqLog, reqArgs,
                   outLog, result, cache,
                   derived, page, sess>>

Next ==
    \/ \E a \in Args(fn) : Call(a)
    \/ \E o \in Outcomes(stage) : Respond(o)
    \/ \E d \in TickSteps(fn) : Tick(d)

Spec == Init /\ [][Next]_vars

(***************************************************************************)
(* The fetches of the time series on payloads that carry unusable,         *)
(* repeated and unordered records, and the consumers that turn a World     *)
(* Bank payload into a series.                                             *)
(***************************************************************************)
\* the records a payload may hold: year 2001 with value 5; the earlier year
\* 2000 with 7.5; year 2001 again with 9; year 2002 with text, with nan and
\* with null for a value; a text period
PayloadRows ==
    {Row(Tok("int", 2001), Tok("int", 5), "IND"),
     Row(Tok("int", 2000), Tok("dec", 7), "IND"),
     Row(Tok("int", 2001), Tok("int", 9), "IND"),
     Row(Tok("int", 2002), Tok("bad", 0), "IND"),
     Row(Tok("int", 2002), Tok("nan", 0), "IND"),
     Row(Tok("int", 2002), Tok("null", 0), "IND"),
     Row(Tok("bad", 0), Tok("int", 5), "IND")}

Payloads == UNION {[1..k -> PayloadRows] : k \in 0..MaxRecs}

\* the OECD body is read and then ignored by the code
PayloadOutcomes(p) ==
    {Resp(503, "garbled", <<>>), Resp(HttpOk, "nokeys", <<>>)}
      \cup {Resp(HttpOk, "ok", rs) : rs \in IF p = "oecd" THEN {<<>>} ELSE Payloads}

\* df.sort_values on a column that may repeat: rows with equal keys keep
\* their order (numpy sorts fewer than 16 rows by insertion)
RECURSIVE InsertStable(_, _)
InsertStable(s, x) ==
    IF s = <<>> THEN <<x>>
    ELSE LET l == s[Len(s)]
         IN  IF x.Year < l.Year
             THEN InsertStable(SubSeq(s, 1, Len(s) - 1), x) \o <<l>>
             ELSE s \o <<x>>

RECURSIVE SortStable(_)
SortStable(s) ==
    IF s = <<>> THEN <<>>
    ELSE InsertStable(SortStable(SubSeq(s, 1, Len(s) - 1)), s[Len(s)])

\* pd.to_numeric(errors='coerce') of a value column entry
ToNumeric(t) == IF t.k \in {"int", "dec"} THEN Float(t) ELSE NaN

\* a series built by a consumer: ok = FALSE when it gave (None, None)
Series(c, pts) == [by |-> c, ok |-> TRUE, pts |-> pts]

NoneSeries(c) == [by |-> c, ok |-> FALSE, pts |-> <<>>]

\* analyze_co2_trends: pd.to_datetime(df['date']) raises on text that is no
\* date, to_numeric coerces the values, no row is dropped; fewer than two
\* rows give (None, None)
AnalyzeCo2Trends(v) ==
    LET rows == v.rows
    IN  IF v.type # "dict" \/ v.keys # {} THEN NoneSeries("analyze_co2_trends")
        ELSE IF rows = <<>> THEN NoneSeries("analyze_co2_trends")
        ELSE IF \E i \in 1..Len(rows) : rows[i].p.k \notin {"int", "null"}
             THEN NoneSeries("analyze_co2_trends")
        ELSE IF Len(rows) < 2 THEN NoneSeries("analyze_co2_trends")
        ELSE Series("analyze_co2_trends",
                    [i \in 1..Len(rows) |-> Point(rows[i].p.n, ToNumeric(rows[i].v))])

\* analyze_temperature_trends: both columns coerced, dropna on both,
\* sort_values('date'); fewer than two rows left give (None, None)
RECURSIVE TemperatureTrendRows(_)
TemperatureTrendRows(rows) ==
    IF rows = <<>> THEN <<>>
    ELSE LET r == Head(rows)
             rest == TemperatureTrendRows(Tail(rows))
         IN  IF r.p.k = "int" /\ r.v.k \in {"int", "dec"}
             THEN <<Point(r.p.n, Float(r.v))>> \o rest
             ELSE rest

AnalyzeTemperatureTrends(v) ==
    IF v.type # "dict" \/ v.keys # {} \/ v.rows = <<>>
    THEN NoneSeries("analyze_temperature_trends")
    ELSE LET pts == SortStable(TemperatureTrendRows(v.rows))
         IN  IF Len(pts) < 2 THEN NoneSeries("analyze_temperature_trends")
             ELSE Series("analyze_temperature_trends", pts)

\* the regional comparison of the Climate Analysis page: int(entry["date"])
\* and float(entry["value"]), a record that raises ValueError or TypeError
\* is skipped; the points stay in payload order
RECURSIVE RegionalPoints(_)
RegionalPoints(rows) ==
    IF rows = <<>> THEN <<>>
    ELSE LET r == Head(rows)
             rest == RegionalPoints(Tail(rows))
         IN  IF IntOk(r.p) /\ FloatOk(r.v)
             THEN <<Point(r.p.n, Float(r.v))>> \o rest
             ELSE rest

RegionalComparison(v) ==
    IF v.type # "dict" \/ v.keys # {} THEN Series("regional_comparison", <<>>)
    ELSE Series("regional_comparison", RegionalPoints(v.rows))

Consumers == {"analyze_co2_trends", "analyze_temperature_trends", "regional_comparison"}

\* a consumer turns the payload that get_indicator_data returned into a series
Analyze(c) ==
    /\ pc = "idle"
    /\ fn = "get_indicator_data"
    /\ result.kind = "value"
    /\ derived' = CASE c = "analyze_co2_trends" -> AnalyzeCo2Trends(result.val)
                    [] c = "analyze_temperature_trends" -> AnalyzeTemperatureTrends(result.val)
                    [] OTHER -> RegionalComparison(result.val)
    /\ UNCHANGED <<app, fn, pc, arg, stage, reqLog, reqArgs,
                   outLog, result, cache, now, nTicks,
                   page, sess>>

SeriesFns == CascadeFns \cup {"get_indicator_data"}

\* a session that keeps its location
SeriesInit ==
    /\ fn \in SeriesFns
    /\ arg \in Args(fn)
    /\ pc = "idle"
    /\ stage = "none"
    /\ app = NoApp
    /\ reqLog = <<>>
    /\ reqArgs = <<>>
    /\ outLog = <<>>
    /\ result = NoResult
    /\ cache = [k \in Keys(fn) |-> NoEntry]
    /\ now = 0
    /\ nTicks = 0
    /\ derived = NoSeries
    /\ page = NoPage
    /\ sess = NoSessions

\* the run of a consumer ends with the series it built
SeriesNext ==
    \/ derived = NoSeries /\ Call(arg)
    \/ \E o \in PayloadOutcomes(stage) : Respond(o)
    \/ \E c \in Consumers : Analyze(c)

SeriesSpec == SeriesInit /\ [][SeriesNext]_vars

(***************************************************************************)
(* Vocabulary of the claims.                                               *)
(***************************************************************************)
\* the position of provider p in the configured order of f (0: not in it)
ProviderIndex(f, p) ==
    IF \E i \in 1..Len(Providers(f)) : Providers(f)[i] = p
    THEN CHOOSE i \in 1..Len(Providers(f)) : Providers(f)[i] = p
    ELSE 0

\* the points a provider's payload normalizes to
ProviderData(p, o, a) ==
    CASE p = "nasa_giss" -> ParseNasaGiss(o.recs).pts
      [] p = "berkeley" -> ParseBerkeley(o.recs).pts
      [] p = "noaa_gml" -> ParseNoaaCo2(o.recs)
      [] p = "scripps" -> ParseScripps(o.recs)
      [] p = "csiro" -> ParseCsiro(o.recs)
      [] p = "nasa_sea" -> ParseSeaLevel(o.recs)
      [] p = "worldbank" -> ParseWorldBank(o.recs)
      [] p = "who" -> ParseWho(o.recs, a).pts
      [] OTHER -> <<>>

\* NetworkError: connection / timeout exception or non-2xx status
NetworkError(o) == o.t = "exc" \/ o.status < 200 \/ o.status > 299

\* FormatError: readable in the transport format, expected keys, columns
\* or archive members missing
FormatError(o) == o.t = "resp" /\ o.status = 200 /\ o.fmt = "nokeys"

\* the provider answered with a payload of the expected shape
Answered(o) == o.t = "resp" /\ o.status = 200 /\ o.fmt = "ok"

\* EmptyResultError: the payload yields zero usable records
EmptyResult(p, o, a) == Answered(o) /\ ProviderData(p, o, a) = <<>>

\* the provider succeeded: its payload normalizes to at least one point
\* (for a record provider: it holds at least one record)
Succeeded(f, p, o, a) ==
    /\ Answered(o)
    /\ IF f \in CascadeFns THEN ProviderData(p, o, a) # <<>> ELSE o.recs # <<>>

\* the last call ran the function (no cache hit) and is over
Finished == pc = "idle" /\ result.kind # "none" /\ ~result.hit

\* every request of the call failed
AllFailed == \A i \in 1..Len(outLog) : ~Succeeded(fn, outLog[i].prov, outLog[i].out, arg)

(***************************************************************************)
(* C1: in every indicator cascade, when providers 1..k-1 fail with a       *)
(* network error and provider k succeeds, the fetch returns provider k's   *)
(* normalized data and requests no later provider.  On a finished call:    *)
(* the call did not stop on a network error while an untried provider      *)
(* remained, and a success after network errors is what it returned.       *)
(***************************************************************************)
C1_FallbackOnNetworkError ==
    (Finished /\ fn \in CascadeFns) =>
        LET n == Len(outLog)
            errorsBefore(k) == \A i \in 1..(k - 1) : NetworkError(outLog[i].out)
        IN  /\ (errorsBefore(n + 1) => n = Len(Providers(fn)))
            /\ (errorsBefore(n)
                  /\ Succeeded(fn, outLog[n].prov, outLog[n].out, arg)) =>
                    /\ result = Returned(Table(ProviderData(outLog[n].prov, outLog[n].out, arg)), FALSE)
                    /\ reqLog = SubSeq(Providers(fn), 1, n)

(***************************************************************************)
(* C2: when every provider of the cascade failed, the caller receives a    *)
(* result that carries no data record.                                     *)
(***************************************************************************)
C2_ExhaustionCarriesNoData ==
    (Finished /\ AllFailed /\ result.kind = "value") => result.val.rows = <<>>

(***************************************************************************)
(* C3: no fetch operation lets an exception escape to its caller.          *)
(***************************************************************************)
C3_NoExceptionEscapes == result.kind # "raised"

(***************************************************************************)
(* C4: an Error outcome is never stored in the cache: right after a call   *)
(* that ended in failure the cache holds no entry it would serve for the   *)
(* same arguments, so the next call re-attempts the cascade.               *)
(***************************************************************************)
C4_FailureNotCached ==
    (Finished /\ AllFailed /\ fn \in CachedFns) => ~CacheValid(cache, fn, arg, now)

(***************************************************************************)
(* C5: a call made while the entry of its key is within the ttl window     *)
(* causes no provider request and returns the stored value; a call made    *)
(* when the key has no entry or the ttl has elapsed runs the function      *)
(* again, which requests a provider, and the value it returns overwrites   *)
(* the entry.                                                              *)
(***************************************************************************)
C5_HitWithinTtlMissAfter ==
    [][/\ (pc = "idle" /\ nTicks' = nTicks /\ fn \in CachedFns) =>
            LET e == cache[Key(fn, arg')]
            IN  IF e.has /\ now - e.storedAt < Ttl(fn)
                THEN /\ pc' = "idle"
                     /\ reqLog' = <<>>
                     /\ result' = Returned(e.val, TRUE)
                     /\ cache' = cache
                ELSE /\ pc' = "wait"
                     /\ Len(reqLog') = 1
                     /\ cache' = cache
       /\ (pc = "wait" /\ pc' = "idle" /\ result'.kind = "value" /\ fn \in CachedFns) =>
            cache' = [cache EXCEPT ![Key(fn, arg)] =
                         [has |-> TRUE, val |-> result'.val, storedAt |-> now,
                          by |-> <<fn, arg>>]]
      ]_vars

\* a second call within the window was served from the cache, and a
\* different entry shows that the ttl of an earlier one had elapsed
C5_Witness ==
    /\ result.hit
    /\ reqLog = <<>>
    /\ now > cache[Key(fn, arg)].storedAt
    /\ cache[Key(fn, arg)].storedAt >= Ttl(fn)

(***************************************************************************)
(* C6: is_us_location is true exactly on the points of [-90,90] x          *)
(* [-180,180] that lie in one of three boxes, closed in latitude and in    *)
(* longitude, and false outside them, e.g. at (0, 0).                      *)
(***************************************************************************)
\* [25, 49.5] x [-124.5, -66.95]; [49.5, 90] x [-124.5, -67.4];
\* [54.5, 71.5] x [-168, -140]
InBox(pt, latLo, latHi, lonLo, lonHi) ==
    latLo <= pt.lat /\ pt.lat <= latHi /\ lonLo <= pt.lon /\ pt.lon <= lonHi

InSomeBox(pt) ==
    \/ InBox(pt, 2500, 4950, -12450, -6695)
    \/ InBox(pt, 4950, 9000, -12450, -6740)
    \/ InBox(pt, 5450, 7150, -16800, -14000)

C6_DomesticIsThreeClosedBoxes ==
    (fn = "get_climate_data" /\ reqLog # <<>>) =>
        /\ (reqLog[1] = "weather_gov") = is_us_location(arg.lat, arg.lon)
        /\ is_us_location(arg.lat, arg.lon) = InSomeBox(arg)
        /\ ~is_us_location(0, 0)

\* a point on the corner of the first box only was classified domestic
C6_Witness ==
    /\ fn = "get_climate_data"
    /\ arg = [lat |-> 4950, lon |-> -6695]
    /\ reqLog = <<"weather_gov">>

(***************************************************************************)
(* C7: get_climate_data contacts exactly one weather backend, chosen by    *)
(* is_us_location alone: api.weather.gov iff the point is domestic,        *)
(* otherwise the CDO-web endpoints; the other backend is never contacted,  *)
(* also when the chosen one fails.                                         *)
(***************************************************************************)
Backend(p) == IF p = "weather_gov" THEN "api.weather.gov" ELSE "cdo-web"

C7_OneBackendByClassification ==
    fn = "get_climate_data" =>
        /\ (pc = "wait" \/ result.kind # "none") => reqLog # <<>>
        /\ \A i \in 1..Len(reqLog) :
              Backend(reqLog[i]) =
                 IF is_us_location(arg.lat, arg.lon) THEN "api.weather.gov" ELSE "cdo-web"

\* the domestic backend failed and the call ended without a CDO request
C7_Witness ==
    /\ fn = "get_climate_data"
    /\ Finished
    /\ is_us_location(arg.lat, arg.lon)
    /\ NetworkError(outLog[1].out)
    /\ result.val = ErrorFeature(ExcText(outLog[1].out))
    /\ reqLog = <<"weather_gov">>

(***************************************************************************)
(* C8: within one call the providers are requested in their configured     *)
(* order and one after another: a request is issued only when the outcome  *)
(* of every earlier request of the call is known.                          *)
(***************************************************************************)
C8_SequentialInOrder ==
    /\ Len(reqLog) = Len(outLog) + (IF pc = "wait" THEN 1 ELSE 0)
    /\ \A i \in 1..Len(outLog) : outLog[i].prov = reqLog[i]
    /\ \A i, j \in 1..Len(reqLog) :
          i < j => ProviderIndex(fn, reqLog[i]) < ProviderIndex(fn, reqLog[j])
    /\ fn # "get_climate_data" => reqLog = SubSeq(Providers(fn), 1, Len(reqLog))

\* the third provider of a cascade is awaited, the outcomes of the first
\* two are known
C8_Witness ==
    /\ pc = "wait"
    /\ reqLog = <<"worldbank", "oecd", "who">>
    /\ Len(outLog) = 2

(***************************************************************************)
(* C9: a payload that is readable but lacks the expected keys, columns or  *)
(* archive members counts as a failure of its provider: the next provider  *)
(* of the cascade is requested, the call does not end while an untried     *)
(* provider remains.                                                       *)
(***************************************************************************)
C9_FormatErrorFallsBack ==
    (Finished /\ fn \in CascadeFns) =>
        \A i \in 1..Len(outLog) :
            (FormatError(outLog[i].out) /\ i < Len(Providers(fn))) =>
                (i < Len(reqLog) /\ reqLog[i + 1] = Providers(fn)[i + 1])

(***************************************************************************)
(* C10: a provider whose payload normalizes to zero points counts as       *)
(* failed: the next provider of the cascade is tried, and a finished       *)
(* fetch does not report an empty table of a provider as its success       *)
(* while an untried provider remains.                                      *)
(***************************************************************************)
C10_EmptyResultFallsBack ==
    (Finished /\ fn \in CascadeFns) =>
        \A i \in 1..Len(outLog) :
            (EmptyResult(outLog[i].prov, outLog[i].out, arg) /\ i < Len(Providers(fn))) =>
                (i < Len(reqLog) /\ reqLog[i + 1] = Providers(fn)[i + 1])

(***************************************************************************)
(* The cached functions that compute their value locally.                  *)
(* get_climate_events_data draws from the module-level generator of        *)
(* `random`; a stream gives, for the k-th draw of a run, the place of the  *)
(* drawn number in its interval: 0 the low end, 1 the middle, 2 the high   *)
(* end.  Which stream a run meets depends on the generator's state.        *)
(***************************************************************************)
EventsFirstYear == 1980

EventsLastYear == 2023

EventsYears == EventsLastYear - EventsFirstYear + 1

DrawStreams ==
    {[k \in 1..(4 * EventsYears) |-> 0],
     [k \in 1..(4 * EventsYears) |-> 1],
     [k \in 1..(4 * EventsYears) |-> 2],
     [k \in 1..(4 * EventsYears) |-> k % 3],
     [k \in 1..(4 * EventsYears) |-> (k + 1) % 3]}

\* base + slope * i + random.uniform(-w, w), in units of 1 / den
Trend(base, slope, w, den, i, u) == Frac(base + slope * i - w + w * u, den)

\* the DataFrame of get_climate_events_data: the four list comprehensions
\* draw in turn, one number per year
EventsTable(d) ==
    Table([n \in 1..EventsYears |->
             [Year |-> EventsFirstYear + n - 1,
              Floods |-> Trend(100, 4, 20, 10, n - 1, d[n]),
              Droughts |-> Trend(80, 3, 15, 10, n - 1, d[EventsYears + n]),
              Storms |-> Trend(1200, 35, 250, 100, n - 1, d[2 * EventsYears + n]),
              Wildfires |-> Trend(500, 45, 100, 100, n - 1, d[3 * EventsYears + n])]])

\* get_climate_indicators: (1.1, 418, 3.4)
IndicatorsTuple == Value("tuple", <<Frac(11, 10), Frac(418, 1), Frac(34, 10)>>, "", {})

RunLocal(f, d) == IF f = "get_climate_events_data" THEN EventsTable(d) ELSE IndicatorsTuple

\* the caller calls a local function: a cache hit returns the entry, a miss
\* runs the body, which returns at once
CallLocal(a, d) ==
    /\ pc = "idle"
    /\ fn \in LocalFns
    /\ arg' = a
    /\ reqLog' = <<>>
    /\ reqArgs' = <<>>
    /\ outLog' = <<>>
    /\ IF CacheValid(cache, fn, a, now)
       THEN /\ result' = Returned(cache[Key(fn, a)].val, TRUE)
            /\ cache' = cache
       ELSE /\ result' = Returned(RunLocal(fn, d), FALSE)
            /\ cache' = CacheStore(cache, fn, a, RunLocal(fn, d), now)
    /\ UNCHANGED <<app, fn, pc, stage, now, nTicks, derived, page, sess>>

LocalInit ==
    /\ fn \in LocalFns
    /\ arg \in Args(fn)
    /\ pc = "idle"
    /\ stage = "none"
    /\ app = NoApp
    /\ reqLog = <<>>
    /\ reqArgs = <<>>
    /\ outLog = <<>>
    /\ result = NoResult
    /\ cache = [k \in Keys(fn) |-> NoEntry]
    /\ now = 0
    /\ nTicks = 0
    /\ derived = NoSeries
    /\ page = NoPage
    /\ sess = NoSessions

LocalNext ==
    \/ \E a \in Args(fn), d \in DrawStreams : CallLocal(a, d)
    \/ \E dt \in TickSteps(fn) : Tick(dt)

LocalSpec == LocalInit /\ [][LocalNext]_vars

(***************************************************************************)
(* Every function of utils.py that carries @st.cache_data, called again    *)
(* and again while the clock advances: the seven fetches and the two       *)
(* local functions.                                                        *)
(***************************************************************************)
CacheInit ==
    /\ fn \in CachedFns
    /\ arg = CHOOSE a \in Args(fn) : TRUE
    /\ pc = "idle"
    /\ stage = "none"
    /\ app = NoApp
    /\ reqLog = <<>>
    /\ reqArgs = <<>>
    /\ outLog = <<>>
    /\ result = NoResult
    /\ cache = [k \in Keys(fn) |-> NoEntry]
    /\ now = 0
    /\ nTicks = 0
    /\ derived = NoSeries
    /\ page = NoPage
    /\ sess = NoSessions

CacheNext ==
    \/ fn \notin LocalFns /\ \E a \in Args(fn) : Call(a)
    \/ \E o \in Outcomes(stage) : Respond(o)
    \/ \E a \in Args(fn), d \in DrawStreams : CallLocal(a, d)
    \/ \E dt \in TickSteps(fn) : Tick(dt)

CacheSpec == CacheInit /\ [][CacheNext]_vars

(***************************************************************************)
(* Two sessions of the Climate Analysis page calling get_co2_data at the   *)
(* same time.  Each session runs the script in a thread of its own; the    *)
(* cache of the function is shared by all of them.  st.cache_data stores   *)
(* the pickled bytes of a returned value in one assignment, hands the      *)
(* computing caller the object it computed and every later caller an       *)
(* object unpickled for that call.                                         *)
(***************************************************************************)
Sessions == {1, 2}

SessFn == "get_co2_data"

\* the provider fails or answers with a record of its own
SessOutcomes(p) == {Exc, Resp(HttpOk, "ok", <<GoodRow(p)>>)}

\* a session that has not called yet
\*   obj: the value of the object the session holds, ref: whose object it is
\*   changed: the session has changed the object since it received it
NoSession ==
    [pc |-> "idle", stage |-> "none", obj |-> NoneValue, ref |-> 0,
     hit |-> FALSE, changed |-> FALSE]

\* Deliver handing out the stored object itself
DeliverStored(s) == 0

\* the object a caller receives belongs to that caller alone
Deliver(s) == s

\* df.drop(df.index, inplace=True): the strongest change a caller can make
\* to a frame it holds
Changed(v) == [v EXCEPT !.rows = <<>>]

\* session s calls get_co2_data()
SessCall(s) ==
    /\ sess[s].pc = "idle"
    /\ IF CacheValid(cache, fn, arg, now)
       THEN sess' = [sess EXCEPT ![s] =
                        [pc |-> "idle", stage |-> "none",
                         obj |-> cache[Key(fn, arg)].val, ref |-> Deliver(s),
                         hit |-> TRUE, changed |-> FALSE]]
       ELSE sess' = [sess EXCEPT ![s] =
                        [pc |-> "wait", stage |-> First(fn, arg),
                         obj |-> NoneValue, ref |-> 0,
                         hit |-> FALSE, changed |-> FALSE]]
    /\ UNCHANGED <<app, fn, pc, arg, stage, reqLog, reqArgs,
                   outLog, result, cache, now,
                   nTicks, derived, page>>

\* the pending request of session s ends with outcome o
SessRespond(s, o) ==
    /\ sess[s].pc = "wait"
    /\ LET st == Step(fn, arg, sess[s].stage, o, <<>>, now)
       IN  IF st.act = "request"
           THEN /\ sess' = [sess EXCEPT ![s].stage = st.stage]
                /\ cache' = cache
           ELSE IF st.act = "return"
           THEN /\ sess' = [sess EXCEPT ![s] =
                               [pc |-> "idle", stage |-> "none",
                                obj |-> st.val, ref |-> Deliver(s),
                                hit |-> FALSE, changed |-> FALSE]]
                /\ cache' = CacheStore(cache, fn, arg, st.val, now)
           ELSE /\ sess' = [sess EXCEPT ![s] = NoSession]
                /\ cache' = cache
    /\ UNCHANGED <<app, fn, pc, arg, stage, reqLog, reqArgs,
                   outLog, result, now, nTicks,
                   derived, page>>

\* session s changes, in place, the frame it received; the change is seen
\* through every reference to that object
SessChange(s) ==
    /\ sess[s].pc = "idle"
    /\ sess[s].obj.type = "table"
    /\ ~sess[s].changed
    /\ sess' = [t \in Sessions |->
                   IF t = s
                   THEN [sess[t] EXCEPT !.obj = Changed(@), !.changed = TRUE]
                   ELSE IF sess[t].ref = sess[s].ref /\ sess[t].pc = "idle"
                   THEN [sess[t] EXCEPT !.obj = Changed(@)]
                   ELSE sess[t]]
    /\ cache' = IF sess[s].ref = DeliverStored(s)
                THEN [cache EXCEPT ![Key(fn, arg)].val = Changed(@)]
                ELSE cache
    /\ UNCHANGED <<app, fn, pc, arg, stage, reqLog, reqArgs,
                   outLog, result, now, nTicks,
                   derived, page>>

SessInit ==
    /\ fn = SessFn
    /\ arg = CHOOSE a \in Args(fn) : TRUE
    /\ pc = "idle"
    /\ stage = "none"
    /\ app = NoApp
    /\ reqLog = <<>>
    /\ reqArgs = <<>>
    /\ outLog = <<>>
    /\ result = NoResult
    /\ cache = [k \in Keys(fn) |-> NoEntry]
    /\ now = 0
    /\ nTicks = 0
    /\ derived = NoSeries
    /\ page = NoPage
    /\ sess = [s \in Sessions |-> NoSession]

SessNext ==
    \/ \E s \in Sessions : SessCall(s)
    \/ \E s \in Sessions : \E o \in SessOutcomes(sess[s].stage) : SessRespond(s, o)
    \/ \E s \in Sessions : SessChange(s)
    \/ \E d \in TickSteps(fn) : Tick(d)

SessionSpec == SessInit /\ [][SessNext]_vars

(***************************************************************************)
(* A session whose script calls two cached functions with the same         *)
(* argument values: fetch_weather and fetch_forecast of the Weather page.  *)
(***************************************************************************)
KeyFns == {"fetch_weather", "fetch_forecast"}

\* the provider fails or answers with a record of its own
KeyOutcomes(p) == {Exc, Resp(HttpOk, "ok", <<GoodRow(p)>>)}

\* the script goes on to call the other function
Switch(f) ==
    /\ pc = "idle"
    /\ f # fn
    /\ fn' = f
    /\ UNCHANGED <<app, pc, arg, stage, reqLog, reqArgs,
                   outLog, result, cache, now, nTicks,
                   derived, page, sess>>

KeyInit ==
    /\ fn \in KeyFns
    /\ arg \in Args(fn)
    /\ pc = "idle"
    /\ stage = "none"
    /\ app = NoApp
    /\ reqLog = <<>>
    /\ reqArgs = <<>>
    /\ outLog = <<>>
    /\ result = NoResult
    /\ cache = [k \in UNION {Keys(f) : f \in KeyFns} |-> NoEntry]
    /\ now = 0
    /\ nTicks = 0
    /\ derived = NoSeries
    /\ page = NoPage
    /\ sess = NoSessions

KeyNext ==
    \/ \E a \in Args(fn) : Call(a)
    \/ \E o \in KeyOutcomes(stage) : Respond(o)
    \/ \E f \in KeyFns : Switch(f)
    \/ \E d \in TickSteps(fn) : Tick(d)

KeySpec == KeyInit /\ [][KeyNext]_vars

(***************************************************************************)
(* The script of the Climate Analysis page.  One try block holds the       *)
(* fetches and the temperature, CO2, sea level and extreme events          *)
(* sections; its handler shows an error banner.  The regional comparison   *)
(* has a try block of its own, the projections have none.                  *)
(***************************************************************************)
\* the sections in script order
PageSections ==
    <<"temperature_chart", "temperature_notes", "co2_chart", "co2_notes",
      "sea_chart", "sea_notes", "events_chart", "events_notes",
      "error_banner", "regional", "projections">>

\* the sections inside the first try block
TrySections ==
    {"temperature_chart", "temperature_notes", "co2_chart", "co2_notes",
     "sea_chart", "sea_notes", "events_chart", "events_notes"}

DisplayOptions == {"Temperature", "CO2 Levels", "Sea Level", "All Indicators"}

\* start_year of the selected timeframe ("1850-Present", "2000-Present")
StartYears == {1850, 2000}

\* the tables a series fetch may hand to the page
PageTables ==
    {EmptyTable, Table(<<Point(1999, Frac(1, 1))>>),
     Table(<<Point(1999, Frac(1, 1)), Point(2001, Frac(2, 1))>>)}

\* what get_indicator_data may hand to the page for "CO2 emissions"
PageIndicators == {Dict(<<>>), ErrorDict(ExcText(Exc))}

\* df[df['Year'] >= start_year]
RECURSIVE FilterFrom(_, _)
FilterFrom(rows, start) ==
    IF rows = <<>> THEN <<>>
    ELSE IF Head(rows).Year >= start
         THEN <<Head(rows)>> \o FilterFrom(Tail(rows), start)
         ELSE FilterFrom(Tail(rows), start)

\* the section is selected by the Display option
Selected(sec, display) ==
    CASE sec \in {"temperature_chart", "temperature_notes"} ->
           display \in {"Temperature", "All Indicators"}
      [] sec \in {"co2_chart", "co2_notes"} -> display \in {"CO2 Levels", "All Indicators"}
      [] sec \in {"sea_chart", "sea_notes"} -> display \in {"Sea Level", "All Indicators"}
      [] OTHER -> TRUE

\* indicators["CO2 emissions"][0].get("value", 0): the error dict has no key 0
IndicatorLookupRaises(ind) == ind.keys # {}

\* the outcomes of a section: "rendered" or "raised".  A chart of an empty
\* table may or may not raise inside plotly (the trendline trace of
\* plot_temperature_chart); the notes read .iloc[-1], which raises
\* IndexError on an empty column.
SectionOutcomes(pg, sec) ==
    CASE sec = "temperature_chart" ->
           IF pg.temp.rows = <<>> THEN {"rendered", "raised"} ELSE {"rendered"}
      [] sec = "temperature_notes" ->
           IF IndicatorLookupRaises(pg.indicators) \/ pg.temp.rows = <<>>
           THEN {"raised"} ELSE {"rendered"}
      [] sec = "co2_notes" ->
           IF IndicatorLookupRaises(pg.indicators) \/ pg.co2.rows = <<>>
           THEN {"raised"} ELSE {"rendered"}
      [] sec = "sea_notes" ->
           IF pg.sea.rows = <<>> THEN {"raised"} ELSE {"rendered"}
      [] OTHER -> {"rendered"}

SectionIndex(sec) == CHOOSE i \in 1..Len(PageSections) : PageSections[i] = sec

\* the section the script reaches after sec: the next one in order that is
\* selected; the error banner only through the handler
RECURSIVE Following(_, _)
Following(i, display) ==
    IF i > Len(PageSections) THEN "done"
    ELSE IF PageSections[i] = "error_banner" \/ ~Selected(PageSections[i], display)
         THEN Following(i + 1, display)
         ELSE PageSections[i]

\* the page script starts: the sidebar gives the Display option and the
\* timeframe, the fetches give their values and the tables are filtered
PageFetch(ind, t, c, s) ==
    /\ page.name = "climate_analysis"
    /\ page.pos = "fetch"
    /\ page' = [page EXCEPT
                  !.indicators = ind,
                  !.temp = Table(FilterFrom(t.rows, page.start)),
                  !.co2 = Table(FilterFrom(c.rows, page.start)),
                  !.sea = Table(FilterFrom(s.rows, page.start)),
                  !.pos = Following(1, page.display)]
    /\ UNCHANGED <<app, fn, pc, arg, stage, reqLog, reqArgs,
                   outLog, result, cache, now, nTicks,
                   derived, sess>>

\* the script runs the section it has reached
PageRender(r) ==
    /\ page.name = "climate_analysis"
    /\ page.pos \notin {"fetch", "done", "crashed"}
    /\ r \in SectionOutcomes(page, page.pos)
    /\ page' =
         IF r = "rendered"
         THEN [page EXCEPT
                 !.rendered = page.rendered \cup {page.pos},
                 !.pos = Following(SectionIndex(page.pos) + 1, page.display)]
         ELSE IF page.pos \in TrySections
              THEN [page EXCEPT !.pos = "error_banner"]
              ELSE [page EXCEPT !.pos = "crashed"]
    /\ UNCHANGED <<app, fn, pc, arg, stage, reqLog, reqArgs,
                   outLog, result, cache, now, nTicks,
                   derived, sess>>

PageInit ==
    /\ fn = "none"
    /\ arg = "()"
    /\ pc = "idle"
    /\ stage = "none"
    /\ app = NoApp
    /\ reqLog = <<>>
    /\ reqArgs = <<>>
    /\ outLog = <<>>
    /\ result = NoResult
    /\ cache = <<>>
    /\ now = 0
    /\ nTicks = 0
    /\ derived = NoSeries
    /\ sess = NoSessions
    /\ \E d \in DisplayOptions, y \in StartYears :
          page = [name |-> "climate_analysis", pos |-> "fetch", display |-> d,
                  start |-> y, indicators |-> NoneValue, temp |-> EmptyTable,
                  co2 |-> EmptyTable, sea |-> EmptyTable, rendered |-> {}]

PageNext ==
    \/ \E ind \in PageIndicators, t \in PageTables, c \in PageTables, s \in PageTables :
          PageFetch(ind, t, c, s)
    \/ \E r \in {"rendered", "raised"} : PageRender(r)

PageSpec == PageInit /\ [][PageNext]_vars

(***************************************************************************)
(* One browser session moving between the pages of the app.  A page's      *)
(* script runs from its top on every visit and on every click; a widget    *)
(* returns the value the user gave it in the run its click started and its *)
(* default otherwise.  st.session_state outlives the runs; the active      *)
(* config file .streamlit/config.toml is a file of the server.             *)
(***************************************************************************)
AppPages == {"app", "news", "weather", "climate_analysis", "climate_risk"}

Themes == {"light", "dark"}

\* the lengths of the list fetch_climate_news may return (page_size is 10);
\* a fetch that raises leaves the page without its pagination like an
\* empty list
ArticleCounts == {0, 3, 10}

MaxNewsPage == 3

\* a session that has run no script; config: which of config_light.toml
\* and config_dark.toml the active file is a copy of
AppStart(c) ==
    [cur |-> "start", keys |-> {}, theme |-> "unset", location |-> "unset",
     news_page |-> 0, config |-> c, ok |-> TRUE, rerun |-> FALSE,
     articles |-> 0, click |-> "none"]

\* if 'k' not in st.session_state: st.session_state.k = default
WithDefaults(a, ks) ==
    [a EXCEPT !.keys = @ \cup ks,
              !.theme = IF "theme" \in ks \ a.keys THEN "light" ELSE @,
              !.location = IF "location" \in ks \ a.keys THEN "London" ELSE @,
              !.news_page = IF "news_page" \in ks \ a.keys THEN 1 ELSE @]

\* st.toggle("Dark Mode", value=theme == 'dark'): the negation of what was
\* shown when the user clicked it, the default otherwise
ToggleValue(a, click) ==
    IF click = "toggle" THEN a.theme # "dark" ELSE a.theme = "dark"

\* switch_theme: shutil.copy of the theme's config over config.toml
switch_theme(a, theme) ==
    [a EXCEPT !.config = IF theme = "dark" THEN "dark" ELSE "light"]

\* the sidebar of app.py
ScriptApp(a, click) ==
    LET b == WithDefaults(a, {"theme", "location"})
    IN  IF ToggleValue(b, click)
        THEN IF b.theme # "dark"
             THEN switch_theme([b EXCEPT !.theme = "dark"], "dark")
             ELSE b
        ELSE IF b.theme # "light"
             THEN switch_theme([b EXCEPT !.theme = "light"], "light")
             ELSE b

\* the sidebar of the other pages: the theme follows the toggle
SetThemeByToggle(a, click) ==
    [a EXCEPT !.theme = IF ToggleValue(a, click) THEN "dark" ELSE "light"]

\* PreviousShown offering the button on every page
PreviousShownAlways(a) == TRUE

\* if st.session_state.news_page > 1
PreviousShown(a) == a.news_page > 1

\* if len(news_articles) >= 10
NextShown(a) == a.articles >= 10

\* pages/news.py; n: the number of articles its fetch returns
ScriptNews(a, click, n) ==
    LET b == SetThemeByToggle(WithDefaults(a, {"theme", "location", "news_page"}), click)
        c == [b EXCEPT !.articles = n]
    IN  IF n = 0 THEN c
        ELSE IF PreviousShown(c) /\ click = "previous"
        THEN [c EXCEPT !.news_page = @ - 1, !.rerun = TRUE]
        ELSE IF NextShown(c) /\ click = "next"
        THEN [c EXCEPT !.news_page = @ + 1, !.rerun = TRUE]
        ELSE c

\* pages/climate_analysis.py, as far as the session state goes
ScriptAnalysis(a, click) ==
    SetThemeByToggle(WithDefaults(a, {"theme", "location"}), click)

\* pages/weather.py and pages/climate_risk.py: st.session_state.theme and
\* st.session_state.location are read without a check; reading a missing
\* key raises AttributeError and ends the run
ScriptWithoutDefaults(a, click) ==
    IF {"theme", "location"} \subseteq a.keys
    THEN SetThemeByToggle(a, click)
    ELSE [a EXCEPT !.ok = FALSE]

\* one run of the script of page p
RunScript(p, a, click, n) ==
    LET a0 == [a EXCEPT !.cur = p, !.ok = TRUE, !.rerun = FALSE, !.click = click]
    IN  CASE p = "app" -> ScriptApp(a0, click)
          [] p = "news" -> ScriptNews(a0, click, n)
          [] p = "climate_analysis" -> ScriptAnalysis(a0, click)
          [] OTHER -> ScriptWithoutDefaults(a0, click)

AppStep(a) ==
    /\ app' = a
    /\ UNCHANGED <<fn, pc, arg, stage, reqLog, reqArgs, outLog, result, cache,
                   now, nTicks, derived, page, sess>>

\* the user opens page p
Open(p, n) ==
    /\ ~app.rerun
    /\ AppStep(RunScript(p, app, "none", n))

\* the user clicks the Dark Mode toggle of the page shown
ClickToggle(n) ==
    /\ app.cur \in AppPages
    /\ app.ok
    /\ ~app.rerun
    /\ AppStep(RunScript(app.cur, app, "toggle", n))

\* the user clicks Previous, which the last run of the news page offered
ClickPrevious(n) ==
    /\ app.cur = "news"
    /\ ~app.rerun
    /\ app.articles > 0
    /\ PreviousShown(app)
    /\ AppStep(RunScript("news", app, "previous", n))

\* the user clicks Next, which the last run of the news page offered
ClickNext(n) ==
    /\ app.cur = "news"
    /\ ~app.rerun
    /\ app.articles > 0
    /\ NextShown(app)
    /\ app.news_page < MaxNewsPage
    /\ AppStep(RunScript("news", app, "next", n))

\* st.rerun(): the script runs again from its top
Rerun(n) ==
    /\ app.rerun
    /\ AppStep(RunScript(app.cur, app, "none", n))

UiInit ==
    /\ fn = "none"
    /\ pc = "idle"
    /\ arg = "()"
    /\ stage = "none"
    /\ app \in {AppStart(c) : c \in Themes}
    /\ reqLog = <<>>
    /\ reqArgs = <<>>
    /\ outLog = <<>>
    /\ result = NoResult
    /\ cache = <<>>
    /\ now = 0
    /\ nTicks = 0
    /\ derived = NoSeries
    /\ page = NoPage
    /\ sess = NoSessions

UiNext ==
    \/ \E p \in AppPages, n \in ArticleCounts : Open(p, n)
    \/ \E n \in ArticleCounts : ClickToggle(n)
    \/ \E n \in ArticleCounts : ClickPrevious(n)
    \/ \E n \in ArticleCounts : ClickNext(n)
    \/ \E n \in ArticleCounts : Rerun(n)

UiSpec == UiInit /\ [][UiNext]_vars

(***************************************************************************)
(* The risk assessment of climate_data.py: calculate_vulnerability_score   *)
(* and the scores, total and label of create_climate_risk_heatmap, on      *)
(* arguments of every shape.  A Python value is a token: "int" a number,   *)
(* "nan" the float nan, "null" None, "bad" a string, "missing" an absent   *)
(* key.                                                                    *)
(***************************************************************************)
Missing == Tok("missing", 0)

TempSamples == {-5, 20, 40}

HumiditySamples == {20, 50, 90}

EventsSamples == {3, 6}

\* weather_data: None, a string, or a dict whose 'main' is absent, None or
\* a dict of temp and humidity
WeatherInputs ==
    {[t |-> x, main |-> "missing", temp |-> Missing, humidity |-> Missing] :
        x \in {"none", "text", "dict"}}
      \cup {[t |-> "dict", main |-> "null", temp |-> Missing, humidity |-> Missing]}
      \cup [t : {"dict"}, main : {"dict"},
            temp : {Missing, Tok("null", 0), Tok("nan", 0)}
                      \cup {Tok("int", n) : n \in TempSamples},
            humidity : {Missing, Tok("bad", 0)}
                      \cup {Tok("int", n) : n \in HumiditySamples}]

\* location_data: None, a string (what pages/climate_risk.py passes), or a dict
LocationInputs ==
    {[t |-> x, is_coastal |-> Missing, is_urban |-> Missing,
      extreme_events |-> Missing] : x \in {"none", "text"}}
      \cup [t : {"dict"},
            is_coastal : {Missing, Tok("int", 1)},
            is_urban : {Missing, Tok("null", 0), Tok("bad", 0)},
            extreme_events : {Missing, Tok("null", 0)}
                      \cup {Tok("int", n) : n \in EventsSamples}]

\* x > c and x < c do not raise: x is a number (a missing key reads as 0)
Compares(t) == t.k \in {"missing", "int", "nan"}

\* the number a comparison sees
Num(t) == IF t.k = "int" THEN t.n ELSE 0

\* bool(x)
Truthy(t) == (t.k = "int" /\ t.n # 0) \/ t.k \in {"bad", "nan"}

RECURSIVE Gcd(_, _)
Gcd(a, b) == IF b = 0 THEN a ELSE Gcd(b, a % b)

\* a non-negative fraction in lowest terms
Reduced(f) ==
    LET g == Gcd(f.num, f.den)
    IN  IF g = 0 THEN f ELSE Frac(f.num \div g, f.den \div g)

FracAdd(a, b) == Reduced(Frac(a.num * b.den + b.num * a.den, a.den * b.den))

FracMul(a, b) == Reduced(Frac(a.num * b.num, a.den * b.den))

FracDiv(a, b) == Reduced(Frac(a.num * b.den, a.den * b.num))

\* min(max(x, 0), 1.0)
Clamp01(f) ==
    IF FracLess(f, Frac(0, 1)) THEN Frac(0, 1)
    ELSE IF FracLess(Frac(1, 1), f) THEN Frac(1, 1)
    ELSE f

\* the points added to the score, in halves
TempPoints(t) ==
    IF t.k = "int" /\ t.n > 35 THEN 4
    ELSE IF t.k \in {"int", "missing"} /\ Num(t) < 0 THEN 2
    ELSE 0

HumidityPoints(t) ==
    IF t.k = "int" /\ t.n > 80 THEN 2
    ELSE IF t.k \in {"int", "missing"} /\ Num(t) < 30 THEN 2
    ELSE 0

\* score before the normalisation, in halves; raises: an exception was
\* caught by the function's handler
VulnerabilityRun(w, l) ==
    LET inMain == w.t = "dict" /\ w.main = "dict"
        wRaises == w.t = "dict" /\
                     \/ w.main = "null"
                     \/ inMain /\ ~(Compares(w.temp) /\ Compares(w.humidity))
        lRaises == l.t = "dict" /\ ~Compares(l.extreme_events)
        wPts == IF inMain THEN TempPoints(w.temp) + HumidityPoints(w.humidity) ELSE 0
        lPts == IF l.t = "dict"
                THEN (IF Truthy(l.is_coastal) THEN 2 ELSE 0)
                       + (IF Truthy(l.is_urban) THEN 1 ELSE 0)
                       + (IF l.extreme_events.k = "int" /\ l.extreme_events.n > 5
                          THEN 2 ELSE 0)
                ELSE 0
    IN  [raises |-> wRaises \/ lRaises, halves |-> 10 + wPts + lPts]

\* calculate_vulnerability_score without its final min(max(...))
calculate_vulnerability_score_unclamped(w, l) ==
    LET r == VulnerabilityRun(w, l)
    IN  IF r.raises THEN Frac(1, 2) ELSE Reduced(Frac(r.halves, 20))

\* calculate_vulnerability_score
calculate_vulnerability_score(w, l) ==
    LET r == VulnerabilityRun(w, l)
    IN  IF r.raises THEN Frac(1, 2) ELSE Clamp01(Reduced(Frac(r.halves, 20)))

RiskWeight == Frac(1, 4)

\* max_values of the three indicators: 2.0, 450.0, 200.0
RiskMax == <<Frac(2, 1), Frac(450, 1), Frac(200, 1)>>

LowBelow == Frac(3, 10)

ModerateBelow == Frac(6, 10)

RiskLabel(total) ==
    IF FracLess(total, LowBelow) THEN "Low Risk"
    ELSE IF FracLess(total, ModerateBelow) THEN "Moderate Risk"
    ELSE "High Risk"

\* create_climate_risk_heatmap(location_data), the weather being the value
\* of location_data's key 'weather': the four weighted scores, their sum
\* and the overall label
create_climate_risk_heatmap(l, w) ==
    LET ind == IndicatorsTuple.rows
        noWeather == [t |-> "none", main |-> "missing", temp |-> Missing,
                      humidity |-> Missing]
        noLocation == [t |-> "dict", is_coastal |-> Missing, is_urban |-> Missing,
                       extreme_events |-> Missing]
        v == IF l.t = "dict" THEN calculate_vulnerability_score(w, l)
             ELSE calculate_vulnerability_score(noWeather, noLocation)
        scores == [i \in 1..3 |-> FracMul(Clamp01(FracDiv(ind[i], RiskMax[i])), RiskWeight)]
                    \o <<FracMul(v, RiskWeight)>>
        total == FracAdd(FracAdd(scores[1], scores[2]), FracAdd(scores[3], scores[4]))
    IN  [scores |-> scores, total |-> total, label |-> RiskLabel(total)]

RiskFns == {"calculate_vulnerability_score", "create_climate_risk_heatmap"}

\* the function is applied to the arguments
Apply ==
    /\ pc = "idle"
    /\ result = NoResult
    /\ result' =
          IF fn = "calculate_vulnerability_score"
          THEN [kind |-> "value", hit |-> FALSE,
                val |-> calculate_vulnerability_score(arg.weather, arg.location)]
          ELSE [kind |-> "value", hit |-> FALSE,
                val |-> create_climate_risk_heatmap(arg.location, arg.weather)]
    /\ UNCHANGED <<fn, pc, arg, stage, reqLog, reqArgs, outLog, cache, now,
                   nTicks, derived, page, sess, app>>

\* the caller goes on to the other function with the same arguments
Other ==
    /\ result # NoResult
    /\ fn' = CHOOSE f \in RiskFns : f # fn
    /\ result' = NoResult
    /\ UNCHANGED <<pc, arg, stage, reqLog, reqArgs, outLog, cache, now,
                   nTicks, derived, page, sess, app>>

RiskInit ==
    /\ fn \in RiskFns
    /\ pc = "idle"
    /\ arg \in [weather : WeatherInputs, location : LocationInputs]
    /\ stage = "none"
    /\ app = NoApp
    /\ reqLog = <<>>
    /\ reqArgs = <<>>
    /\ outLog = <<>>
    /\ result = NoResult
    /\ cache = <<>>
    /\ now = 0
    /\ nTicks = 0
    /\ derived = NoSeries
    /\ page = NoPage
    /\ sess = NoSessions

RiskNext == Apply \/ Other

RiskSpec == RiskInit /\ [][RiskNext]_vars

(***************************************************************************)
(* Vocabulary of the claims on normalisation.                              *)
(***************************************************************************)
\* the outcome of the call's last request
LastOut == outLog[Len(outLog)]

\* a record with a numeric period and a numeric value
Usable(r) == r.p.k = "int" /\ r.v.k \in {"int", "dec"}

\* the data records of a payload: the first line of the CSIRO file is its header
Records(p, recs) == IF p = "csiro" /\ recs # <<>> THEN Tail(recs) ELSE recs

\* the value a provider's unit convention gives a numeric token
Reading(p, t) ==
    IF p = "nasa_giss" THEN Frac(Float(t).num, Float(t).den * 100) ELSE Float(t)

\* a finished series fetch whose last provider answered with a payload
SeriesFromPayload ==
    /\ Finished
    /\ fn \in CascadeFns
    /\ result.kind = "value"
    /\ outLog # <<>>
    /\ Answered(LastOut.out)
    /\ LastOut.prov # "oecd"

(***************************************************************************)
(* C11: in every time-series parser a record whose period or value cannot  *)
(* be coerced to a number is omitted together with its period, every       *)
(* other record of the payload is still output, and no output point        *)
(* carries a NaN or a substituted zero.  (A WHO payload without a usable   *)
(* record is left to the static series.)                                   *)
(***************************************************************************)
C11_UnusableRecordsDropped ==
    SeriesFromPayload =>
        LET recs == Records(LastOut.prov, LastOut.out.recs)
            out == result.val.rows
            usableAt(i) == Usable(recs[i])
        IN  (LastOut.prov = "who" => \E i \in 1..Len(recs) : usableAt(i)) =>
              /\ \A i \in 1..Len(recs) :
                    usableAt(i) => \E j \in 1..Len(out) : out[j].Year = recs[i].p.n
              /\ \A j \in 1..Len(out) :
                    \E i \in 1..Len(recs) : usableAt(i) /\ out[j].Year = recs[i].p.n
              /\ \A j \in 1..Len(out) :
                    /\ out[j].val.den # 0
                    /\ out[j].val.num = 0 =>
                          \E i \in 1..Len(recs) :
                              usableAt(i) /\ out[j].Year = recs[i].p.n /\ recs[i].v.n = 0

(***************************************************************************)
(* C12: wherever a World Bank payload is turned into a series (air quality *)
(* fetch, regional comparison, temperature and CO2 trend analysis) the     *)
(* series holds exactly one point per record with a non-null numeric value *)
(* and a numeric date, and no point for a record whose value is null.  A   *)
(* record whose value is the literal nan is left open.                     *)
(***************************************************************************)
RECURSIVE UsablePoints(_)
UsablePoints(recs) ==
    IF recs = <<>> THEN <<>>
    ELSE IF Usable(Head(recs))
         THEN <<Point(Head(recs).p.n, Float(Head(recs).v))>> \o UsablePoints(Tail(recs))
         ELSE UsablePoints(Tail(recs))

IsNumber(pt) == pt.val.den # 0

OnePointPerUsableRecord(recs, pts) ==
    /\ SortPoints(SelectSeq(pts, IsNumber)) = SortPoints(UsablePoints(recs))
    /\ \A j \in 1..Len(pts) :
          ~IsNumber(pts[j]) =>
              \E i \in 1..Len(recs) :
                  recs[i].v.k = "nan" /\ recs[i].p.k = "int" /\ recs[i].p.n = pts[j].Year

C12_WorldBankOnePointPerRecord ==
    /\ (fn = "get_indicator_data" /\ derived.by # "none" /\ derived.ok
          /\ outLog # <<>> /\ Answered(LastOut.out)) =>
            OnePointPerUsableRecord(LastOut.out.recs, derived.pts)
    /\ (SeriesFromPayload /\ LastOut.prov = "worldbank") =>
            OnePointPerUsableRecord(LastOut.out.recs, result.val.rows)

(***************************************************************************)
(* C13: the series a time-series fetch returns holds no two points with    *)
(* the same period; when a period repeats in the payload the point of the  *)
(* period carries the value encountered last.                              *)
(***************************************************************************)
C13_NoDuplicatePeriods ==
    (Finished /\ fn \in CascadeFns /\ result.kind = "value") =>
        LET out == result.val.rows
        IN  /\ \A j, k \in 1..Len(out) : j # k => out[j].Year # out[k].Year
            /\ SeriesFromPayload =>
                  LET recs == Records(LastOut.prov, LastOut.out.recs)
                  IN  \A i \in 1..Len(recs) :
                        (/\ Usable(recs[i])
                         /\ \A m \in (i + 1)..Len(recs) :
                               ~(Usable(recs[m]) /\ recs[m].p.n = recs[i].p.n)) =>
                            \A j \in 1..Len(out) :
                               out[j].Year = recs[i].p.n =>
                                  out[j].val = Reading(LastOut.prov, recs[i].v)

(***************************************************************************)
(* C14: the series a time-series fetch returns is in ascending order of    *)
(* period, whatever the order of the records in the payload.               *)
(***************************************************************************)
C14_AscendingOrder ==
    (Finished /\ fn \in CascadeFns /\ result.kind = "value") =>
        LET out == result.val.rows
        IN  \A j, k \in 1..Len(out) : j < k => out[j].Year <= out[k].Year

(***************************************************************************)
(* C15: producing an indicator's series is deterministic and free of       *)
(* hidden state: a run of a fetch that follows an earlier run of it and    *)
(* receives the same raw payloads (the cache entry having expired) returns *)
(* the output the earlier run returned.  Extreme events included.          *)
(***************************************************************************)
C15_SameInputsSameOutput ==
    [][(/\ result.kind = "value"
        /\ result'.kind = "value"
        /\ ~result'.hit
        /\ outLog' = outLog) => result'.val = result.val]_vars

(***************************************************************************)
(* C16: on a page the failure of one indicator's fetch or chart leaves     *)
(* only that indicator unavailable.  On the Climate Analysis page, when    *)
(* the script has ended, every selected section is rendered unless its own *)
(* data failed: its table is empty, or (temperature and CO2 notes) the     *)
(* World Bank lookup it quotes failed.                                     *)
(***************************************************************************)
OwnDataFailed(pg, sec) ==
    CASE sec \in {"temperature_chart", "temperature_notes"} ->
           pg.temp.rows = <<>> \/ IndicatorLookupRaises(pg.indicators)
      [] sec \in {"co2_chart", "co2_notes"} ->
           pg.co2.rows = <<>> \/ IndicatorLookupRaises(pg.indicators)
      [] sec \in {"sea_chart", "sea_notes"} -> pg.sea.rows = <<>>
      [] OTHER -> FALSE

C16_FailureIsolated ==
    (page.name = "climate_analysis" /\ page.pos \in {"done", "crashed"}) =>
        \A i \in 1..Len(PageSections) :
            LET sec == PageSections[i]
            IN  (sec # "error_banner" /\ Selected(sec, page.display)
                   /\ ~OwnDataFailed(page, sec)) => sec \in page.rendered

(***************************************************************************)
(* C17: when every provider of a cascade failed, the message attached to   *)
(* the error result is not the text of the raw exception a provider call   *)
(* raised.                                                                 *)
(***************************************************************************)
\* the result carries a message
HasMessage(v) == v.keys \cap {"message", "error"} # {}

C17_MessageNamesExhaustion ==
    (Finished /\ AllFailed /\ result.kind = "value" /\ HasMessage(result.val)) =>
        \A i \in 1..Len(outLog) : result.val.name # ExcText(outLog[i].out)

(***************************************************************************)
(* C18: cache entries are keyed by the function and the tuple of its       *)
(* argument values: a call served from the cache receives the value that   *)
(* the last run of the same function with the same argument values         *)
(* returned, never one stored by another function or for other arguments.  *)
(***************************************************************************)
C18_KeyedByFunctionAndArgs ==
    [][/\ (pc = "idle" /\ fn' = fn /\ now' = now /\ result'.hit) =>
            /\ cache[Key(fn, arg')].by = <<fn, arg'>>
            /\ result'.val = cache[Key(fn, arg')].val
       /\ \A k \in DOMAIN cache' :
             cache'[k].has => k = Key(cache'[k].by[1], cache'[k].by[2])
      ]_vars

\* a call is served from the cache while the other location of the same
\* function and the same location of the other function hold other values
C18_Witness ==
    /\ result.hit
    /\ \E a \in Args(fn) \ {arg} :
          cache[Key(fn, a)].has /\ cache[Key(fn, a)].val # result.val
    /\ \E f \in KeyFns \ {fn} :
          cache[Key(f, arg)].has /\ cache[Key(f, arg)].val # result.val

(***************************************************************************)
(* C19: the validity window of an entry depends only on the class of its   *)
(* function: 3600 seconds for the news, 1800 seconds for the current       *)
(* weather and the forecast, 86400 seconds for the climate indicators,     *)
(* temperature, CO2, sea level, extreme events and air quality.  A call    *)
(* that finds an entry is served from it exactly while the entry is        *)
(* younger than its window, and never once the window has elapsed.         *)
(***************************************************************************)
Window(f) ==
    CASE f = "fetch_climate_news" -> 3600
      [] f \in {"fetch_weather", "fetch_forecast"} -> 1800
      [] f \in {"get_climate_indicators", "get_global_temperature_data",
                "get_co2_data", "get_sea_level_data",
                "get_climate_events_data", "get_air_quality_data"} -> 86400

C19_WindowPerClass ==
    [][(pc = "idle" /\ now' = now /\ cache[Key(fn, arg')].has) =>
          LET age == now - cache[Key(fn, arg')].storedAt
          IN  /\ age < Window(fn) => result' = Returned(cache[Key(fn, arg')].val, TRUE)
              /\ age >= Window(fn) => ~result'.hit
      ]_vars

\* the extreme events were served from an entry half a day old, which had
\* replaced an entry whose day had elapsed
C19_Witness ==
    /\ fn = "get_climate_events_data"
    /\ result.hit
    /\ cache[Key(fn, arg)].storedAt >= 86400
    /\ now - cache[Key(fn, arg)].storedAt = 43200

(***************************************************************************)
(* C20: with several sessions calling the same cached function at the      *)
(* same time, the entry of a key changes only by being written whole, in   *)
(* one step, with the value a finished run returned; a caller served from  *)
(* the cache receives the entry as it was written; and a change a caller   *)
(* makes to the value it received alters neither the entry nor what any    *)
(* other caller holds.                                                     *)
(***************************************************************************)
WroteWhole(s) ==
    /\ sess[s].pc = "wait"
    /\ sess'[s].pc = "idle"
    /\ cache' = [cache EXCEPT ![Key(fn, arg)] =
                    [has |-> TRUE, val |-> sess'[s].obj, storedAt |-> now,
                     by |-> <<fn, arg>>]]

FromProviderPayload ==
    /\ SeriesFromPayload
    /\ LastOut.prov # "scripps"
    /\ LastOut.prov = "who" => result.val.rows # StaticSeries(arg)

C21_ValuesPassedThrough ==
    FromProviderPayload =>
        LET recs == Records(LastOut.prov, LastOut.out.recs)
            out == result.val.rows
        IN  \A j \in 1..Len(out) :
                \E i \in 1..Len(recs) :
                    /\ recs[i].p.k \in {"int", "dec"}
                    /\ recs[i].p.n = out[j].Year
                    /\ FloatOk(recs[i].v)
                    /\ out[j].val = Float(recs[i].v)

(***************************************************************************)
(* C22: within one call each provider endpoint of the cascade is requested *)
(* at most once: no provider appears twice among the requests of a call,   *)
(* and the request that follows a failed one goes to another provider.     *)
(***************************************************************************)
C22_AtMostOncePerCall ==
    /\ \A i, j \in 1..Len(reqLog) : i # j => reqLog[i] # reqLog[j]
    /\ Len(reqLog) <= Len(Providers(fn))
    /\ \A i \in 1..Len(outLog) :
          (i < Len(reqLog) /\ ~Succeeded(fn, outLog[i].prov, outLog[i].out, arg)) =>
              reqLog[i + 1] # outLog[i].prov

\* the sea-level call is over: CSIRO answered 503 and was not asked again,
\* the NASA file was requested next
C22_Witness ==
    /\ Finished
    /\ fn = "get_sea_level_data"
    /\ reqLog = <<"csiro", "nasa_sea">>
    /\ outLog[1].out.status = 503
    /\ Len(outLog) = 2

(***************************************************************************)
(* C23: get_air_quality_data returns its built-in static series only after *)
(* the World Bank, OECD and WHO providers have each been requested, in     *)
(* that order, and none of them yielded a non-empty series.                *)
(***************************************************************************)
ReturnedStatic ==
    /\ Finished
    /\ fn = "get_air_quality_data"
    /\ result.kind = "value"
    /\ result.val = Table(StaticSeries(arg))

C23_StaticOnlyAfterAllThree ==
    ReturnedStatic =>
        /\ reqLog = <<"worldbank", "oecd", "who">>
        /\ AllFailed

(***************************************************************************)
(* C24: get_climate_events_data executes a fallback cascade: a run of the  *)
(* function requests a primary disaster-data source and, on its failure,   *)
(* the NOAA billion-dollar disasters file; the data it returns comes from  *)
(* one of these sources, and the empty table is returned only after they   *)
(* have failed.                                                            *)
(***************************************************************************)
EventsSources == <<"emdat", "noaa_billions">>

C24_EventsCascade ==
    (fn = "get_climate_events_data" /\ result.kind = "value" /\ ~result.hit) =>
        /\ reqLog # <<>>
        /\ reqLog = SubSeq(EventsSources, 1, Len(reqLog))
        /\ result.val.rows # <<>> => (outLog # <<>> /\ Answered(LastOut.out))

(***************************************************************************)
(* C25: when no request of the call raises an exception,                   *)
(* get_air_quality_data returns a non-empty series, whatever the statuses  *)
(* and payloads of the providers; when no provider yields data the result  *)
(* is the built-in series of 22 points for 2000..2021, in ascending order, *)
(* of the country code the location maps to.                               *)
(***************************************************************************)
NoRequestRaised == \A i \in 1..Len(outLog) : outLog[i].out.t # "exc"

C25_AirQualityNeverEmpty ==
    (Finished /\ fn = "get_air_quality_data" /\ NoRequestRaised) =>
        /\ result.kind = "value"
        /\ result.val.type = "table"
        /\ result.val.rows # <<>>
        /\ AllFailed =>
              /\ result.val.rows = StaticSeries(arg)
              /\ Len(result.val.rows) = 22
              /\ \A i \in 1..22 : result.val.rows[i].Year = 1999 + i

(***************************************************************************)
(* C26: for a point outside the domestic boxes, whenever                   *)
(* NOAAAPI.get_climate_data returns, the result is a Feature whose         *)
(* properties hold either an 'error' entry or a 'station' and a 'data'     *)
(* entry, never both and never neither; the data request is issued only    *)
(* after the station lookup answered with at least one station, directly   *)
(* after it, and carries the id of the first station of that answer.       *)
(***************************************************************************)
FoundStation(o) ==
    /\ BodyRead(o)
    /\ \/ o.fmt = "nocoords"
       \/ o.fmt = "ok" /\ o.recs # <<>>

C26_ErrorOrStationData ==
    (fn = "get_climate_data" /\ ~is_us_location(arg.lat, arg.lon)) =>
        /\ (Finished /\ result.kind = "value") =>
              /\ result.val.type = "feature"
              /\ ("error" \in result.val.keys) # ({"station", "data"} \subseteq result.val.keys)
              /\ "error" \in result.val.keys =>
                    result.val.keys \cap {"station", "data"} = {}
        /\ \A i \in 1..Len(reqLog) :
              reqLog[i] = "cdo_data" =>
                  /\ i = 2
                  /\ reqLog[1] = "cdo_stations"
                  /\ FoundStation(outLog[1].out)
                  /\ reqArgs[2].stationid = StationId(FirstStation(outLog[1].out))

\* the lookup answered with two stations, the data of the first was
\* requested and returned with it
C26_Witness ==
    /\ Finished
    /\ fn = "get_climate_data"
    /\ ~is_us_location(arg.lat, arg.lon)
    /\ reqLog = <<"cdo_stations", "cdo_data">>
    /\ Len(outLog[1].out.recs) = 2
    /\ reqArgs[2].stationid = StationId(outLog[1].out.recs[1])
    /\ result.kind = "value"
    /\ {"station", "data"} \subseteq result.val.keys

(***************************************************************************)
(* C27: whichever page a session opens first, st.session_state.theme and   *)
(* st.session_state.location are set before the page reads them: no run of *)
(* a page script ends on the read of a session variable that is missing.   *)
(***************************************************************************)
C27_SessionStateSetBeforeRead ==
    app.cur \in AppPages => app.ok

(***************************************************************************)
(* C28: after any sequence of dark-mode toggles on any pages, once app.py  *)
(* has finished a run the active config file is the copy of the config of  *)
(* st.session_state.theme, and the theme is 'light' or 'dark'.             *)
(***************************************************************************)
C28_ConfigMatchesTheme ==
    /\ "theme" \in app.keys => app.theme \in Themes
    /\ (app.cur = "app" /\ app.ok /\ ~app.rerun) => app.config = app.theme

(***************************************************************************)
(* C29: st.session_state.news_page is an integer >= 1 once the news page   *)
(* has run: it starts at 1, a run lowers it by one only on a click of      *)
(* Previous while it is greater than 1, and raises it by one only on a     *)
(* click of Next while the page's fetch returned at least 10 articles.     *)
(***************************************************************************)
C29_NewsPageAtLeastOne ==
    [][/\ "news_page" \in app'.keys => app'.news_page >= 1
       /\ "news_page" \in app'.keys \ app.keys => app'.news_page = 1
       /\ ("news_page" \in app.keys /\ app'.news_page # app.news_page) =>
             \/ /\ app'.news_page = app.news_page - 1
                /\ app.news_page > 1
                /\ app'.click = "previous"
             \/ /\ app'.news_page = app.news_page + 1
                /\ app'.articles >= 10
                /\ app'.click = "next"
      ]_vars

\* the session is on page 2 again after Next, Next and Previous
C29_Witness ==
    /\ app.cur = "news"
    /\ app.news_page = 2
    /\ app.click = "none"
    /\ app.articles = 3

(***************************************************************************)
(* C30: for every weather_data and location_data, None, non-dict values    *)
(* and dicts with missing or null fields included,                         *)
(* calculate_vulnerability_score returns a value in [0, 1]; in             *)
(* create_climate_risk_heatmap each of the four weighted scores lies in    *)
(* [0, 0.25], the total in [0, 1], and the label is 'Low Risk' exactly     *)
(* when total < 0.3, 'Moderate Risk' exactly when 0.3 <= total < 0.6 and   *)
(* 'High Risk' otherwise.                                                  *)
(***************************************************************************)
Within(f, lo, hi) == f.den > 0 /\ ~FracLess(f, lo) /\ ~FracLess(hi, f)

=============================================================================
